---------------------------- MODULE Spec2Model ----------------------------
(***************************************************************************)
(* SurfBot (src/surfbot.py): window selection, county ranking, the daily   *)
(* report, the command handler with the scheduled jobs, and the update     *)
(* listener.  Text is a sequence of one-character strings, so that         *)
(* parsing, case folding and substring tests are computed, not assumed.    *)
(***************************************************************************)
EXTENDS Integers, Sequences, FiniteSets, TLC

VARIABLES
    today_idx,   \* datetime.now(TZ).weekday() read by get_day_names
    data,        \* the grid handed to find_best_windows
    wpc,         \* "input" | "selected" | "explained"
    sel,         \* what find_best_windows returned
    expl,        \* what generate_explainer returned
    page,        \* the county page as fetch_county_rankings receives it
    cpc,         \* "input" | "done"
    rankings,    \* what fetch_county_rankings returned
    rpc,         \* daily_report: "spots" | "county" | "done" | "raised"
    spot_i,      \* daily_report: index of the next spot of SPOTS (0-based)
    net,         \* what the network answered to each spot fetch so far
    fetches,     \* number of fetch_spot calls made, per spot
    sections,    \* the per-spot sections appended to msg so far
    county_net,  \* what the network answered to the county fetch
    county_fetches, \* number of fetch_county_rankings calls made
    best_part,   \* the "Best in LA County" lines appended to msg
    clock_wd,    \* datetime.now(TZ).weekday()
    clock_h,     \* datetime.now(TZ).hour
    host_off,    \* hours the host's local clock (used by schedule) is ahead of TZ
    last_event,  \* the command or job that ran last
    last_text,   \* the text handed to Bot.handle last
    outbox,      \* the calls to send made by the last event, in order
    updates,     \* the updates the transport holds for the bot, by update_id
    last_update_id, \* Bot.last_update_id
    lpc,         \* Bot.listen: "poll" | "batch" | "sleep"
    batch,       \* the updates of the current answer not yet looked at
    handled,     \* the update_ids handed to Bot.handle, in order
    dropped,     \* history: the ids left unlooked-at in an answer when handle raised
    creds,       \* what the transport makes of TELEGRAM_TOKEN: "valid" | "unauthorized" | "unreachable"
    mpc,         \* main: "start" | "running"
    scheduler,   \* whether the run_scheduler thread has been started
    call,        \* a helper function and the argument it is called with
    ret,         \* what the call did: raised or returned, and the value
    doc,         \* the forecast document fetch_spot gets for a spot
    grid,        \* what fetch_spot made of doc
    ppc,         \* "fetch" | "parsed" | "composed"
    picks,       \* what find_best_windows returned for grid
    section,     \* what daily_report appended for the spot
    ticker       \* the WEEKEND WINDOWS part of hourly_top10's message

winVars == <<today_idx, data, wpc, sel, expl>>
countyVars == <<page, cpc, rankings>>
reportVars == <<rpc, spot_i, net, fetches, sections, county_net, county_fetches, best_part>>
cmdVars == <<clock_wd, clock_h, host_off, last_event, last_text, outbox>>
listenVars == <<updates, last_update_id, lpc, batch, handled, dropped>>
startVars == <<creds, mpc, scheduler>>
helperVars == <<call, ret>>
parseVars == <<doc, grid, ppc, picks, section>>
tickerVars == <<ticker>>
moreVars == <<startVars, helperVars, parseVars, tickerVars>>
vars == <<winVars, countyVars, reportVars, cmdVars, listenVars, moreVars>>

\* the parts of the state a specification leaves alone
IdleCounty ==
    /\ page = [ok |-> FALSE, rows |-> <<>>]
    /\ cpc = "idle"
    /\ rankings = <<>>

IdleCommands ==
    /\ clock_wd = 0
    /\ clock_h = 0
    /\ host_off = 0
    /\ last_event = "idle"
    /\ last_text = <<>>
    /\ outbox = <<>>

IdleListen ==
    /\ updates = <<>>
    /\ last_update_id = 0
    /\ lpc = "idle"
    /\ batch = <<>>
    /\ handled = <<>>
    /\ dropped = {}

IdleStartup ==
    /\ creds = "valid"
    /\ mpc = "idle"
    /\ scheduler = FALSE

IdleHelpers ==
    /\ call = [fn |-> "none"]
    /\ ret = [done |-> FALSE]

IdleParse ==
    /\ doc = [rows |-> <<>>]
    /\ grid = [none |-> TRUE]
    /\ ppc = "idle"
    /\ picks = [done |-> FALSE]
    /\ section = [kind |-> "none"]

IdleTicker ==
    /\ ticker = [kind |-> "none"]

IdleMore ==
    /\ IdleStartup
    /\ IdleHelpers
    /\ IdleParse
    /\ IdleTicker

IdleReport ==
    /\ rpc = "idle"
    /\ spot_i = 0
    /\ net = <<>>
    /\ fetches = <<>>
    /\ sections = <<>>
    /\ county_net = [ok |-> FALSE, rows |-> <<>>]
    /\ county_fetches = 0
    /\ best_part = <<>>

----------------------------------------------------------------------------
(* Bounds of the model *)

\* longest ratings / waves_ft / periods / wind_states sequence drawn
MaxLen == 4

\* most table rows on the county page
MaxRows == 3

\* most updates that arrive for the bot
MaxUpdates == 3

\* longest text handed to meters_to_feet
MaxText == 4

\* most cells of a wave-height row handed to the waves_ft conversion
MaxCells == 2

\* most pieces a wind-state text handed to wind_text is put together from
MaxWords == 2

\* number of slot cells of a forecast row cut short
ShortRow == 4

----------------------------------------------------------------------------
(* Text *)

Digits == <<"0", "1", "2", "3", "4", "5", "6", "7", "8", "9">>
UpperCase == <<"A","B","C","D","E","F","G","H","I","J","K","L","M",
               "N","O","P","Q","R","S","T","U","V","W","X","Y","Z">>
LowerCase == <<"a","b","c","d","e","f","g","h","i","j","k","l","m",
               "n","o","p","q","r","s","t","u","v","w","x","y","z">>
WhiteSpace == {" ", "\t", "\n"}

IsDigitChar(c) == \E i \in 1..10 : Digits[i] = c
DigitVal(c) == (CHOOSE i \in 1..10 : Digits[i] = c) - 1

\* str.lower() on one character
LowerChar(c) ==
    IF \E i \in 1..26 : UpperCase[i] = c
    THEN LowerCase[CHOOSE i \in 1..26 : UpperCase[i] = c]
    ELSE c

\* str.lower()
Lower(s) == [i \in 1..Len(s) |-> LowerChar(s[i])]

RECURSIVE LStrip(_)
LStrip(s) == IF s # <<>> /\ Head(s) \in WhiteSpace THEN LStrip(Tail(s)) ELSE s

RECURSIVE RStrip(_)
RStrip(s) ==
    IF s # <<>> /\ s[Len(s)] \in WhiteSpace
    THEN RStrip(SubSeq(s, 1, Len(s) - 1))
    ELSE s

\* str.strip()
Strip(s) == RStrip(LStrip(s))

\* s.startswith(pre)
StartsWith(s, pre) == Len(s) >= Len(pre) /\ SubSeq(s, 1, Len(pre)) = pre

\* sub in s
Contains(s, sub) ==
    \E i \in 1..(Len(s) - Len(sub) + 1) : SubSeq(s, i, i + Len(sub) - 1) = sub

\* s.isdigit()
IsDigit(s) == s # <<>> /\ \A i \in 1..Len(s) : IsDigitChar(s[i])

RECURSIVE DigitsValue(_)
DigitsValue(s) ==
    IF s = <<>> THEN 0
    ELSE 10 * DigitsValue(SubSeq(s, 1, Len(s) - 1)) + DigitVal(s[Len(s)])

\* int(text): surrounding whitespace, one optional sign, decimal digits;
\* anything else raises ValueError (ok = FALSE)
ParseInt(text) ==
    LET t == Strip(text)
        signed == t # <<>> /\ Head(t) \in {"+", "-"}
        body == IF signed THEN Tail(t) ELSE t
    IN  IF IsDigit(body)
        THEN [ok |-> TRUE,
              v |-> IF signed /\ Head(t) = "-" THEN 0 - DigitsValue(body)
                    ELSE DigitsValue(body)]
        ELSE [ok |-> FALSE, v |-> 0]

----------------------------------------------------------------------------
(* Configuration *)

WEEKDAY_PTO_THRESHOLD == 5

None == "None"

----------------------------------------------------------------------------
(* Formatting *)

wind_text_CrossFirst(state) ==
    LET s == Lower(state)
    IN  IF Contains(s, <<"c","r","o","s","s">>) /\ ~Contains(s, <<"o","n">>)
        THEN "light wind"
        ELSE IF Contains(s, <<"g","l","a","s","s">>) \/ Contains(s, <<"o","f","f">>)
        THEN "calm"
        ELSE "windy"

\* wind_text(state): "glass"/"off" -> calm, "cross" without "on" -> light wind
wind_text(state) ==
    LET s == Lower(state)
    IN  IF Contains(s, <<"g","l","a","s","s">>) \/ Contains(s, <<"o","f","f">>)
        THEN "calm"
        ELSE IF Contains(s, <<"c","r","o","s","s">>) /\ ~Contains(s, <<"o","n">>)
        THEN "light wind"
        ELSE "windy"

DayNames == <<"Mon", "Tue", "Wed", "Thu", "Fri", "Sat", "Sun">>

\* get_day_names(): the seven names rotated to start today
get_day_names(today) == [i \in 1..7 |-> DayNames[((today + i - 1) % 7) + 1]]

PerNames == <<"AM", "PM">>

IsWeekend(day) == day \in {"Sat", "Sun"}

\* a sentinel that is a real rating
NoWeekendBest_Zero ==
    [day |-> None, per |-> "AM", rating |-> 0, height |-> 0,
     period |-> <<"0">>, wind |-> ""]

\* the initial weekend_best of find_best_windows
NoWeekendBest ==
    [day |-> None, per |-> "AM", rating |-> -1, height |-> 0,
     period |-> <<"0">>, wind |-> ""]

\* seq[idx] of Python (0-based); out of range raises IndexError (ok = FALSE)
Index(seq, idx) ==
    IF idx >= 0 /\ idx < Len(seq)
    THEN [ok |-> TRUE, v |-> seq[idx + 1]]
    ELSE [ok |-> FALSE]

\* the bounds test off by one
SlotHeight_OffByOne(d, idx) ==
    IF idx <= Len(d.waves_ft) THEN Index(d.waves_ft, idx) ELSE [ok |-> TRUE, v |-> 0]

\* the `height` read of find_best_windows
SlotHeight(d, idx) ==
    IF idx < Len(d.waves_ft) THEN Index(d.waves_ft, idx) ELSE [ok |-> TRUE, v |-> 0]

\* the `period` read of find_best_windows
SlotPeriod(d, idx) ==
    IF idx < Len(d.periods) THEN Index(d.periods, idx) ELSE [ok |-> TRUE, v |-> <<"0">>]

\* the wind state read of find_best_windows (before wind_text)
SlotWindState(d, idx) ==
    IF idx < Len(d.wind_states) THEN Index(d.wind_states, idx) ELSE [ok |-> TRUE, v |-> <<>>]

\* the last of several equal ratings wins
BeatsWeekendBest_OrEqual(rating, best) == rating >= best.rating

\* rating > weekend_best["rating"]
BeatsWeekendBest(rating, best) == rating > best.rating

\* the threshold itself excluded
IsPtoWorthy_Strict(rating) == rating > WEEKDAY_PTO_THRESHOLD

\* rating >= WEEKDAY_PTO_THRESHOLD
IsPtoWorthy(rating) == rating >= WEEKDAY_PTO_THRESHOLD

\* the periods of a day that find_best_windows scans: enumerate(["AM", "PM"])
ScannedPeriods == 2

\* idx = i * 3 + p
SlotIndex(i, p) == i * 3 + p

\* One pass of the inner loop body for day i (0-based), period p (0-based),
\* on the loop state st = [weekend_best, pto_worthy, raised].
ScanSlot(d, days, i, p, st) ==
    LET idx == SlotIndex(i, p)
        day == days[i + 1]
    IN  IF st.raised THEN st
        ELSE IF idx >= Len(d.ratings) THEN st
        ELSE LET r == Index(d.ratings, idx)
                 parsed == IF r.ok THEN ParseInt(r.v) ELSE [ok |-> FALSE, v |-> 0]
             IN  IF ~parsed.ok THEN st
                 ELSE LET h == SlotHeight(d, idx)
                          pd == SlotPeriod(d, idx)
                          w == SlotWindState(d, idx)
                      IN  IF ~(h.ok /\ pd.ok /\ w.ok)
                          THEN [st EXCEPT !.raised = TRUE]
                          ELSE LET entry == [day |-> day, per |-> PerNames[p + 1],
                                             rating |-> parsed.v, height |-> h.v,
                                             period |-> pd.v, wind |-> wind_text(w.v)]
                               IN  IF IsWeekend(day)
                                   THEN IF BeatsWeekendBest(parsed.v, st.weekend_best)
                                        THEN [st EXCEPT !.weekend_best = entry]
                                        ELSE st
                                   ELSE IF IsPtoWorthy(parsed.v)
                                        THEN [st EXCEPT !.pto_worthy = Append(@, entry)]
                                        ELSE st

\* the two nested loops, step k = i * ScannedPeriods + p
RECURSIVE ScanFrom(_, _, _, _)
ScanFrom(d, days, k, st) ==
    IF k >= Len(days) * ScannedPeriods THEN st
    ELSE ScanFrom(d, days, k + 1,
                  ScanSlot(d, days, k \div ScannedPeriods, k % ScannedPeriods, st))

\* find_best_windows(data, days)
find_best_windows(d, days) ==
    ScanFrom(d, SubSeq(days, 1, IF Len(days) < 7 THEN Len(days) ELSE 7), 0,
             [weekend_best |-> NoWeekendBest, pto_worthy |-> <<>>, raised |-> FALSE])

\* max(pto_worthy, key=rating): the first entry of the highest rating
RECURSIVE MaxByRating(_)
MaxByRating(s) ==
    IF Len(s) = 1 THEN s[1]
    ELSE LET m == MaxByRating(SubSeq(s, 1, Len(s) - 1))
         IN  IF s[Len(s)].rating > m.rating THEN s[Len(s)] ELSE m

\* a one-point edge already triggers the callout
WorthPto_OnePoint(top, weekend_best) == top.rating >= weekend_best.rating + 1

\* top["rating"] > weekend_best["rating"] + 1
WorthPto(top, weekend_best) == top.rating > weekend_best.rating + 1

\* generate_explainer(weekend_best, pto_worthy): the weekend line chosen and
\* whether the "worth PTO" line is appended (and for which entry)
generate_explainer(weekend_best, pto_worthy) ==
    LET first == IF weekend_best.rating >= 3 THEN "weekend play"
                 ELSE IF weekend_best.rating >= 1 THEN "weekend weak"
                 ELSE "weekend flat"
        top == IF pto_worthy # <<>> THEN MaxByRating(pto_worthy) ELSE NoWeekendBest
        callout == pto_worthy # <<>> /\ WorthPto(top, weekend_best)
    IN  [weekend_line |-> first, callout |-> callout,
         top |-> IF callout THEN top ELSE NoWeekendBest]

----------------------------------------------------------------------------
(* Window selection: inputs and steps *)

\* rating cell texts drawn: an empty cell, a negative number, and ratings
\* below, at and above the PTO threshold
RatingTexts == { <<>>, <<"-", "2">>, <<"4">>, <<"5">>, <<"7">> }

\* wind-state cell texts, by slot
WindSamples == << <<"G","l","a","s","s","y">>,
                  <<"C","r","o","s","s","-","s","h","o","r","e">>,
                  <<"O","n","s","h","o","r","e">>,
                  <<"C","r","o","s","s","-","o","f","f">> >>

\* lengths drawn for <<waves_ft, periods, wind_states>>: every row complete,
\* every row empty or cut to one cell, and each row missing in turn
AuxShapes ==
    { <<MaxLen, MaxLen, MaxLen>>, <<0, 0, 0>>, <<1, 1, 1>>,
      <<0, MaxLen, MaxLen>>, <<MaxLen, 0, MaxLen>>, <<MaxLen, MaxLen, 0>> }

Grid(ratings, nw, np, ns) ==
    [ratings |-> ratings,
     waves_ft |-> [i \in 1..nw |-> i],
     periods |-> [i \in 1..np |-> <<"1", Digits[((i - 1) % 10) + 1]>>],
     wind_states |-> [i \in 1..ns |-> WindSamples[((i - 1) % 4) + 1]]]

Grids ==
    { Grid(r, sh[1], sh[2], sh[3]) :
        r \in UNION { [1..n -> RatingTexts] : n \in 0..MaxLen },
        sh \in AuxShapes }

NoSelection == [weekend_best |-> NoWeekendBest, pto_worthy |-> <<>>, raised |-> FALSE]
NoExplainer == [weekend_line |-> "", callout |-> FALSE, top |-> NoWeekendBest]

IdleWindows ==
    /\ today_idx = 0
    /\ data = Grid(<<>>, 0, 0, 0)
    /\ wpc = "idle"
    /\ sel = NoSelection
    /\ expl = NoExplainer

InitWindows ==
    /\ IdleMore
    /\ today_idx \in 0..6
    /\ data \in Grids
    /\ wpc = "input"
    /\ sel = NoSelection
    /\ expl = NoExplainer
    /\ IdleCounty
    /\ IdleReport
    /\ IdleCommands
    /\ IdleListen

\* weekend_best, pto_worthy = find_best_windows(data, days)
FindBestWindows ==
    /\ wpc = "input"
    /\ sel' = find_best_windows(data, get_day_names(today_idx))
    /\ wpc' = "selected"
    /\ UNCHANGED <<moreVars, today_idx, data, expl, countyVars, reportVars, cmdVars, listenVars>>

\* explainer = generate_explainer(weekend_best, pto_worthy)
GenerateExplainer ==
    /\ wpc = "selected"
    /\ ~sel.raised
    /\ expl' = generate_explainer(sel.weekend_best, sel.pto_worthy)
    /\ wpc' = "explained"
    /\ UNCHANGED <<moreVars, today_idx, data, sel, countyVars, reportVars, cmdVars, listenVars>>

NextWindows == FindBestWindows \/ GenerateExplainer

SpecWindows == InitWindows /\ [][NextWindows]_vars

----------------------------------------------------------------------------
(* Window selection: what the claims speak of *)

Days == get_day_names(today_idx)

\* the AM and PM slot indexes of the seven days
AmPmSlots == { idx \in 0..20 : idx % 3 # 2 }
NightSlots == { idx \in 0..20 : idx % 3 = 2 }

SlotDay(idx) == Days[(idx \div 3) + 1]
SlotPer(idx) == IF idx % 3 = 0 THEN "AM" ELSE IF idx % 3 = 1 THEN "PM" ELSE "Night"

\* the slot has a rating entry that parses as an integer
Rated(idx) == idx < Len(data.ratings) /\ ParseInt(data.ratings[idx + 1]).ok
RatingOf(idx) == ParseInt(data.ratings[idx + 1]).v

WeekendRated == { idx \in AmPmSlots : Rated(idx) /\ SlotDay(idx) \in {"Sat", "Sun"} }
WeekendRatedNonNeg == { idx \in WeekendRated : RatingOf(idx) >= 0 }

\* the first slot of S, in scan order, among those of the highest rating
FirstHighest(S) ==
    CHOOSE s \in S : \A t \in S :
        RatingOf(t) < RatingOf(s) \/ (RatingOf(t) = RatingOf(s) /\ s <= t)

IsSlot(entry, idx) ==
    /\ entry.day = SlotDay(idx)
    /\ entry.per = SlotPer(idx)
    /\ entry.rating = RatingOf(idx)

IsSentinel(entry) == entry.day = None /\ entry.per = "AM" /\ entry.rating = -1

Selected == wpc # "input"

\* C1 as stated: whenever some weekend AM/PM slot has an integer-parseable
\* rating, weekend_best is the first slot, in scan order, of the highest such
\* rating.
C1_AsStated ==
    (Selected /\ WeekendRated # {}) =>
        IsSlot(sel.weekend_best, FirstHighest(WeekendRated))

\* C1 (amended): weekend_best is the weekend AM/PM slot of the highest
\* integer-parseable rating, the first in scan order among equals, provided
\* that rating is at least 0; when every parseable weekend rating is negative
\* the sentinel is returned.  Night slots never decide it.
C1_WeekendBest ==
    Selected =>
        /\ WeekendRatedNonNeg # {} =>
              IsSlot(sel.weekend_best, FirstHighest(WeekendRatedNonNeg))
        /\ WeekendRatedNonNeg = {} => IsSentinel(sel.weekend_best)

\* two weekend slots tie at the top, a Night slot of a weekend day is rated
\* higher than both, and the earlier of the two was returned
C1_Witness ==
    /\ wpc = "selected"
    /\ \E s, t \in WeekendRatedNonNeg :
          /\ s < t
          /\ RatingOf(s) = RatingOf(t)
          /\ s = FirstHighest(WeekendRatedNonNeg)
          /\ IsSlot(sel.weekend_best, s)
          /\ \E n \in NightSlots :
                /\ Rated(n)
                /\ SlotDay(n) \in {"Sat", "Sun"}
                /\ RatingOf(n) > RatingOf(s)

\* a weekend whose only parseable ratings are negative
C1_NegativeWeekend ==
    /\ wpc = "selected"
    /\ WeekendRated # {}
    /\ WeekendRatedNonNeg = {}

\* the AM/PM slot indexes in scan order: day by day, AM before PM
ScanOrder == [k \in 1..14 |-> ((k - 1) \div 2) * 3 + ((k - 1) % 2)]

IsWeekdayCandidate(idx) ==
    /\ Rated(idx)
    /\ SlotDay(idx) \notin {"Sat", "Sun"}
    /\ RatingOf(idx) >= 5

WeekdayCandidates == SelectSeq(ScanOrder, IsWeekdayCandidate)

\* C2: the weekday candidates are exactly the weekday AM/PM slots whose
\* integer-parseable rating is >= 5, each once, in scan order.
C2_WeekdayCandidates ==
    Selected =>
        /\ Len(sel.pto_worthy) = Len(WeekdayCandidates)
        /\ \A k \in 1..Len(WeekdayCandidates) :
              IsSlot(sel.pto_worthy[k], WeekdayCandidates[k])

\* two candidates returned with the lower rating first, and a rated weekday
\* slot below the threshold left out
C2_Witness ==
    /\ wpc = "selected"
    /\ Len(sel.pto_worthy) >= 2
    /\ sel.pto_worthy[1].rating < sel.pto_worthy[2].rating
    /\ \E idx \in AmPmSlots :
          Rated(idx) /\ SlotDay(idx) \notin {"Sat", "Sun"} /\ RatingOf(idx) < 5

ReturnedEntries ==
    { sel.pto_worthy[k] : k \in 1..Len(sel.pto_worthy) }
        \cup (IF sel.weekend_best.day = None THEN {} ELSE {sel.weekend_best})

\* C3: find_best_windows never faults; every entry it returns is a slot with
\* an in-range, integer-parseable rating, and carries that slot's height,
\* period and wind, or 0 / "0" / "windy" where the sequence has no entry.
C3_NoFaultDefaults ==
    Selected =>
        /\ ~sel.raised
        /\ \A e \in ReturnedEntries : \E idx \in AmPmSlots :
              /\ Rated(idx)
              /\ IsSlot(e, idx)
              /\ e.height = IF idx < Len(data.waves_ft)
                            THEN data.waves_ft[idx + 1] ELSE 0
              /\ e.period = IF idx < Len(data.periods)
                            THEN data.periods[idx + 1] ELSE <<"0">>
              /\ e.wind = IF idx < Len(data.wind_states)
                          THEN wind_text(data.wind_states[idx + 1]) ELSE "windy"

\* ratings shorter than the grid with an unparseable AM/PM entry in range,
\* and a returned weekend slot whose height, period and wind are all missing
C3_Witness ==
    /\ wpc = "selected"
    /\ Len(data.ratings) > 0
    /\ \E idx \in AmPmSlots : idx < Len(data.ratings) /\ ~Rated(idx)
    /\ \E idx \in WeekendRated :
          /\ IsSlot(sel.weekend_best, idx)
          /\ idx >= Len(data.waves_ft)
          /\ idx >= Len(data.periods)
          /\ idx >= Len(data.wind_states)
          /\ sel.weekend_best.height = 0
          /\ sel.weekend_best.wind = "windy"

AllRatingsInScale ==
    \A idx \in 0..(Len(data.ratings) - 1) :
        Rated(idx) => RatingOf(idx) \in 0..10

\* C4: with no integer-parseable weekend AM/PM rating the sentinel (day None,
\* period "AM", rating -1) is returned; and when every parseable rating is in
\* 0..10, a weekend_best of rating -1 means exactly that.
C4_Sentinel ==
    Selected =>
        /\ WeekendRated = {} => IsSentinel(sel.weekend_best)
        /\ (AllRatingsInScale /\ sel.weekend_best.rating = -1) => WeekendRated = {}

\* weekend AM/PM slots are in range but none parses, the other ratings are
\* in 0..10, and the sentinel came back
C4_Witness ==
    /\ wpc = "selected"
    /\ AllRatingsInScale
    /\ \E idx \in AmPmSlots :
          idx < Len(data.ratings) /\ SlotDay(idx) \in {"Sat", "Sun"}
    /\ \E idx \in 0..(Len(data.ratings) - 1) : Rated(idx)
    /\ WeekendRated = {}
    /\ IsSentinel(sel.weekend_best)

CandidateRatings == { sel.pto_worthy[k].rating : k \in 1..Len(sel.pto_worthy) }
MaxCandidateRating == CHOOSE m \in CandidateRatings : \A r \in CandidateRatings : r <= m

\* C5: the "worth PTO" callout is produced if and only if there is a weekday
\* candidate and the highest candidate rating is more than one point above
\* weekend_best's rating.
C5_PtoCallout ==
    wpc = "explained" =>
        (expl.callout <=>
            (sel.pto_worthy # <<>> /\ MaxCandidateRating > sel.weekend_best.rating + 1))

\* the best weekday is exactly one point above a real weekend rating: no callout
C5_Witness ==
    /\ wpc = "explained"
    /\ sel.pto_worthy # <<>>
    /\ sel.weekend_best.day # None
    /\ MaxCandidateRating = sel.weekend_best.rating + 1
    /\ ~expl.callout

\* the callout is produced for a weekday two points above the weekend
C5_CalloutGiven ==
    /\ wpc = "explained"
    /\ sel.weekend_best.day # None
    /\ expl.callout
    /\ expl.top.rating = sel.weekend_best.rating + 2

----------------------------------------------------------------------------
(* County rankings *)

\* s.split(sep)[0]: the text before the first occurrence of sep
RECURSIVE SplitFirst(_, _)
SplitFirst(s, sep) ==
    IF s = <<>> \/ StartsWith(s, sep) THEN <<>>
    ELSE <<Head(s)>> \o SplitFirst(Tail(s), sep)

\* the spot name taken from the row's link text
SpotName(linkText) ==
    LET name == Strip(linkText)
    IN  IF Contains(name, <<"C","A","L"," ","-">>)
        THEN Strip(SplitFirst(name, <<"C","A","L">>))
        ELSE name

\* txt.isdigit() and len(txt) == 1
IsSingleDigit(txt) == IsDigit(txt) /\ Len(txt) = 1

\* the inner loop over a row's cells: the first single-digit cell, if any
RECURSIVE FirstDigitCell(_)
FirstDigitCell(cells) ==
    IF cells = <<>> THEN [ok |-> FALSE, v |-> 0]
    ELSE LET txt == Strip(Head(cells))
         IN  IF IsSingleDigit(txt) THEN [ok |-> TRUE, v |-> ParseInt(txt).v]
             ELSE FirstDigitCell(Tail(cells))

NoLink == <<"<", "n", "o", " ", "a", ">">>

\* the loop over the page's rows, appending to spots
RECURSIVE CollectSpots(_)
CollectSpots(rows) ==
    IF rows = <<>> THEN <<>>
    ELSE LET row == rows[Len(rows)]
             before == CollectSpots(SubSeq(rows, 1, Len(rows) - 1))
             found == FirstDigitCell(row.cells)
         IN  IF Len(row.cells) < 4 \/ row.link = NoLink \/ ~found.ok THEN before
             ELSE Append(before, [name |-> SpotName(row.link), rating |-> found.v])

Reverse(s) == [i \in 1..Len(s) |-> s[Len(s) + 1 - i]]

\* an equal rating is placed before the entries already there
InsertByRating_BeforeEqual(sorted, e) ==
    LET n == Cardinality({ i \in 1..Len(sorted) : sorted[i].rating < e.rating })
    IN  SubSeq(sorted, 1, n) \o <<e>> \o SubSeq(sorted, n + 1, Len(sorted))

\* one insertion of the stable ascending sort: e goes after every entry whose
\* key is not greater
InsertByRating(sorted, e) ==
    LET n == Cardinality({ i \in 1..Len(sorted) : sorted[i].rating <= e.rating })
    IN  SubSeq(sorted, 1, n) \o <<e>> \o SubSeq(sorted, n + 1, Len(sorted))

RECURSIVE StableSortAsc(_)
StableSortAsc(s) ==
    IF s = <<>> THEN <<>>
    ELSE InsertByRating(StableSortAsc(SubSeq(s, 1, Len(s) - 1)), s[Len(s)])

\* spots.sort(key=rating, reverse=True): the list is reversed, sorted
\* ascending by a stable sort, and reversed again
SortByRatingDesc(s) == Reverse(StableSortAsc(Reverse(s)))

\* fetch_county_rankings(): [] when the fetch or the parse raises
fetch_county_rankings(pg) ==
    IF pg.ok THEN SortByRatingDesc(CollectSpots(pg.rows)) ELSE <<>>

\* link texts drawn
LinkTexts == { <<"A">>, <<"B", " ">>,
               <<"A", " ", "C", "A", "L", " ", "-", " ", "L", "A">> }

\* rows of cells drawn: ratings 3, 7 and 1 (behind a two-digit cell), no
\* rating at all, and a row of three cells
CellRows == { << <<"x">>, <<"3">>, <<>>, <<>> >>,
              << <<"x">>, <<"7">>, <<"1">>, <<>> >>,
              << <<"x">>, <<"1", "0">>, <<" ", "1", " ">>, <<>> >>,
              << <<"x">>, <<>>, <<"-">>, <<>> >>,
              << <<"x">>, <<"7">>, <<>> >> }

PageRows ==
    { [cells |-> c, link |-> l] : c \in CellRows, l \in LinkTexts }
        \cup { [cells |-> << <<"x">>, <<"7">>, <<"1">>, <<>> >>, link |-> NoLink] }

Pages ==
    { [ok |-> TRUE, rows |-> r] : r \in UNION { [1..n -> PageRows] : n \in 0..MaxRows } }
        \cup { [ok |-> FALSE, rows |-> <<>>] }

InitCounty ==
    /\ IdleMore
    /\ page \in Pages
    /\ cpc = "input"
    /\ rankings = <<>>
    /\ IdleWindows
    /\ IdleReport
    /\ IdleCommands
    /\ IdleListen

\* spots = fetch_county_rankings()
FetchCountyRankings ==
    /\ cpc = "input"
    /\ rankings' = fetch_county_rankings(page)
    /\ cpc' = "done"
    /\ UNCHANGED <<moreVars, page, winVars, reportVars, cmdVars, listenVars>>

NextCounty == FetchCountyRankings

SpecCounty == InitCounty /\ [][NextCounty]_vars

----------------------------------------------------------------------------
(* County rankings: what the claims speak of *)

Collected == CollectSpots(page.rows)

Injections(n) == { f \in [1..n -> 1..n] : \A i, j \in 1..n : f[i] = f[j] => i = j }

\* C6: the returned list is a rearrangement of the entries collected from
\* the page, in descending order of rating, entries of equal rating keeping
\* the order of their rows.
C6_StableDescending ==
    (cpc = "done" /\ page.ok) =>
        /\ Len(rankings) = Len(Collected)
        /\ \E f \in Injections(Len(rankings)) :
              /\ \A i \in 1..Len(rankings) : rankings[i] = Collected[f[i]]
              /\ \A i, j \in 1..Len(rankings) :
                    i < j =>
                        \/ rankings[i].rating > rankings[j].rating
                        \/ (rankings[i].rating = rankings[j].rating /\ f[i] < f[j])

\* a lower rating first on the page, then two differently named spots of one
\* higher rating, returned ahead of it in page order
C6_Witness ==
    /\ cpc = "done"
    /\ Len(Collected) = 3
    /\ Collected[1].rating < Collected[2].rating
    /\ Collected[2].rating = Collected[3].rating
    /\ Collected[2].name # Collected[3].name
    /\ rankings = <<Collected[2], Collected[3], Collected[1]>>

----------------------------------------------------------------------------
(* Temperature *)

\* round(n / d) of Python for d > 0: the nearest integer, a half going to
\* the even neighbour
RoundDiv(n, d) ==
    LET q == n \div d
        r == n % d
    IN  IF 2 * r < d THEN q
        ELSE IF 2 * r > d THEN q + 1
        ELSE IF q % 2 = 0 THEN q ELSE q + 1

\* c_to_f(c) = round(c * 9/5 + 32), for c a whole number of degrees
c_to_f(c) == RoundDiv(9 * c + 160, 5)

\* format_temp(celsius=c): the two numbers printed, c = round(celsius)
format_temp_celsius(c) == [c |-> c, f |-> c_to_f(c)]

\* the wetsuit ladder of daily_report, on Fahrenheit
ReportSuit(temp_f) ==
    IF temp_f < 60 THEN "full 4/3"
    ELSE IF temp_f < 65 THEN "3/2"
    ELSE IF temp_f < 70 THEN "spring"
    ELSE "trunks"

----------------------------------------------------------------------------
(* The daily report *)

SPOTS == << [name |-> "Annenberg/SM Pier", slug |-> "Santa-Monica-Pier"],
            [name |-> "Venice/Muscle Beach", slug |-> "Venice-Breakwater"] >>

\* fetch_spot raising instead of returning None
fetch_spot_Raises(response) ==
    IF response.fails
    THEN [raised |-> TRUE, none |-> TRUE, data |-> response.data]
    ELSE [raised |-> FALSE, none |-> FALSE, data |-> response.data]

\* fetch_spot(slug) on the network's answer: any exception of the request or
\* of the parse is caught and None returned; otherwise the parsed data
fetch_spot(response) ==
    IF response.fails
    THEN [raised |-> FALSE, none |-> TRUE, data |-> response.data]
    ELSE [raised |-> FALSE, none |-> FALSE, data |-> response.data]

\* not data or not data.get("waves_ft")
SpotUnavailable(res) == res.none \/ res.data.waves_ft = <<>>

\* height / period as daily_report prints them: "?" where there is no entry
ReportHeight(d, idx) ==
    IF idx < Len(d.waves_ft) THEN [known |-> TRUE, v |-> d.waves_ft[idx + 1]]
    ELSE [known |-> FALSE, v |-> 0]

ReportPeriod(d, idx) ==
    IF idx < Len(d.periods) THEN d.periods[idx + 1] ELSE <<"?">>

ReportWind_Glassy(d, idx) ==
    wind_text(IF idx < Len(d.wind_states) THEN d.wind_states[idx + 1] ELSE <<"g","l","a","s","s","y">>)

ReportWind(d, idx) ==
    wind_text(IF idx < Len(d.wind_states) THEN d.wind_states[idx + 1] ELSE <<>>)

\* the WEEKEND lines, from step k = i * 2 + p of the two nested loops on
RECURSIVE WeekendLines(_, _, _, _)
WeekendLines(d, days, best, k) ==
    IF k >= Len(days) * ScannedPeriods THEN <<>>
    ELSE LET i == k \div ScannedPeriods
             p == k % ScannedPeriods
             idx == SlotIndex(i, p)
             day == days[i + 1]
             line == [day |-> day, per |-> PerNames[p + 1],
                      height |-> ReportHeight(d, idx),
                      period |-> ReportPeriod(d, idx),
                      rating |-> d.ratings[idx + 1],
                      wind |-> ReportWind(d, idx),
                      marker |-> (day = best.day /\ PerNames[p + 1] = best.per)]
         IN  (IF IsWeekend(day) /\ idx < Len(d.ratings) THEN <<line>> ELSE <<>>)
                 \o WeekendLines(d, days, best, k + 1)

\* the WEEKDAYS lines (AM only), from day i on
RECURSIVE WeekdayLines(_, _, _)
WeekdayLines(d, days, i) ==
    IF i >= Len(days) THEN <<>>
    ELSE LET idx == i * 3
             day == days[i + 1]
             parsed == ParseInt(d.ratings[idx + 1])
             line == [day |-> day,
                      height |-> ReportHeight(d, idx),
                      period |-> ReportPeriod(d, idx),
                      rating |-> d.ratings[idx + 1],
                      wind |-> ReportWind(d, idx),
                      pto_flag |-> (parsed.ok /\ parsed.v >= WEEKDAY_PTO_THRESHOLD)]
         IN  (IF ~IsWeekend(day) /\ idx < Len(d.ratings) THEN <<line>> ELSE <<>>)
                 \o WeekdayLines(d, days, i + 1)

\* the water line: printed only for a truthy water_temp_c
WaterLine(d) ==
    IF d.water_temp_c.known /\ d.water_temp_c.v # 0
    THEN [shown |-> TRUE, temp |-> format_temp_celsius(d.water_temp_c.v),
          suit |-> ReportSuit(c_to_f(d.water_temp_c.v))]
    ELSE [shown |-> FALSE, temp |-> format_temp_celsius(0), suit |-> ""]

\* what one pass of the loop over SPOTS appends to msg
SpotSection(spot, res, days) ==
    IF SpotUnavailable(res)
    THEN [kind |-> "Data unavailable", name |-> spot.name]
    ELSE LET w == find_best_windows(res.data, days)
         IN  [kind |-> "report", name |-> spot.name,
              weekend |-> WeekendLines(res.data, days, w.weekend_best, 0),
              weekdays |-> WeekdayLines(res.data, days, 0),
              explainer |-> generate_explainer(w.weekend_best, w.pto_worthy),
              water |-> WaterLine(res.data)]

\* best3 = [s for s in spots[:5] if s["rating"] >= 3], printed as best3[:3]
BestInCounty(spots) ==
    LET top5 == SubSeq(spots, 1, IF Len(spots) < 5 THEN Len(spots) ELSE 5)
        IsGood(sp) == sp.rating >= 3
        best3 == SelectSeq(top5, IsGood)
    IN  SubSeq(best3, 1, IF Len(best3) < 3 THEN Len(best3) ELSE 3)

NoData ==
    [ratings |-> <<>>, waves_ft |-> <<>>, periods |-> <<>>, wind_states |-> <<>>,
     water_temp_c |-> [known |-> FALSE, v |-> 0]]

\* a complete 21-slot page
FullData ==
    [ratings |-> [i \in 1..21 |-> <<Digits[((i * 5) % 8) + 1]>>],
     waves_ft |-> [i \in 1..21 |-> (i % 5) + 1],
     periods |-> [i \in 1..21 |-> <<"1", Digits[(i % 10) + 1]>>],
     wind_states |-> [i \in 1..21 |-> WindSamples[(i % 4) + 1]],
     water_temp_c |-> [known |-> TRUE, v |-> 15]]

\* a page cut after three days, some rating cells empty, no period or
\* wind-state row, no water temperature
PartialData ==
    [ratings |-> [i \in 1..9 |-> IF i % 4 = 0 THEN <<>> ELSE <<Digits[(i % 7) + 3]>>],
     waves_ft |-> [i \in 1..9 |-> i],
     periods |-> <<>>,
     wind_states |-> <<>>,
     water_temp_c |-> [known |-> FALSE, v |-> 0]]

\* a page whose rating cells hold no number
TextData ==
    [ratings |-> [i \in 1..21 |-> <<"-">>],
     waves_ft |-> [i \in 1..21 |-> 2],
     periods |-> [i \in 1..21 |-> <<"9">>],
     wind_states |-> [i \in 1..21 |-> WindSamples[3]],
     water_temp_c |-> [known |-> TRUE, v |-> 21]]

\* a page with ratings but no wave row
NoWavesData ==
    [ratings |-> <<<<"3">>, <<"4">>, <<"5">>>>, waves_ft |-> <<>>, periods |-> <<>>,
     wind_states |-> <<>>, water_temp_c |-> [known |-> FALSE, v |-> 0]]

\* what the network can answer to a spot fetch
SpotResponses ==
    { [fails |-> TRUE, data |-> NoData] }
        \cup { [fails |-> FALSE, data |-> d] :
                 d \in {FullData, PartialData, TextData, NoWavesData} }

CountyRow(name, digit) ==
    [cells |-> << <<"x">>, <<digit>>, <<>>, <<>> >>, link |-> name]

\* what the network can answer to the county fetch
CountyResponses ==
    { [ok |-> FALSE, rows |-> <<>>],
      [ok |-> TRUE, rows |-> <<>>],
      [ok |-> TRUE, rows |-> << CountyRow(<<"A">>, "1"), CountyRow(<<"B">>, "2") >>],
      [ok |-> TRUE, rows |-> << CountyRow(<<"A">>, "3"), CountyRow(<<"B">>, "7"),
                               CountyRow(<<"C">>, "1") >>],
      [ok |-> TRUE, rows |-> << CountyRow(<<"A">>, "3"), CountyRow(<<"B">>, "7"),
                               CountyRow(<<"C">>, "7"), CountyRow(<<"D">>, "4"),
                               CountyRow(<<"E">>, "3"), CountyRow(<<"F">>, "9") >>] }

InitReport ==
    /\ IdleMore
    /\ today_idx \in 0..6
    /\ data = Grid(<<>>, 0, 0, 0)
    /\ wpc = "idle"
    /\ sel = NoSelection
    /\ expl = NoExplainer
    /\ IdleCounty
    /\ rpc = "spots"
    /\ spot_i = 0
    /\ net = <<>>
    /\ fetches = [i \in 1..Len(SPOTS) |-> 0]
    /\ sections = <<>>
    /\ county_net = [ok |-> FALSE, rows |-> <<>>]
    /\ county_fetches = 0
    /\ best_part = <<>>
    /\ IdleCommands
    /\ IdleListen

\* one pass of `for spot in SPOTS`: fetch, then the placeholder or the section
ReportSpot ==
    /\ rpc = "spots"
    /\ spot_i < Len(SPOTS)
    /\ \E response \in SpotResponses :
          LET res == fetch_spot(response)
          IN  /\ net' = Append(net, response)
              /\ fetches' = [fetches EXCEPT ![spot_i + 1] = @ + 1]
              /\ IF res.raised
                 THEN /\ rpc' = "raised"
                      /\ UNCHANGED <<spot_i, sections>>
                 ELSE /\ sections' = Append(sections,
                              SpotSection(SPOTS[spot_i + 1], res, get_day_names(today_idx)))
                      /\ spot_i' = spot_i + 1
                      /\ rpc' = IF spot_i + 1 < Len(SPOTS) THEN "spots" ELSE "county"
    /\ UNCHANGED <<moreVars, county_net, county_fetches, best_part, winVars, countyVars, cmdVars, listenVars>>

\* spots = fetch_county_rankings(), the best-in-county lines, return msg
ReportCounty ==
    /\ rpc = "county"
    /\ \E response \in CountyResponses :
          /\ county_net' = response
          /\ best_part' = BestInCounty(fetch_county_rankings(response))
    /\ county_fetches' = county_fetches + 1
    /\ rpc' = "done"
    /\ UNCHANGED <<moreVars, spot_i, net, fetches, sections, winVars, countyVars, cmdVars, listenVars>>

NextReport == ReportSpot \/ ReportCounty

SpecReport == InitReport /\ [][NextReport]_vars

----------------------------------------------------------------------------
(* The daily report: what the claims speak of *)

SpotIds == 1..Len(SPOTS)

\* C7: in one daily_report run no spot and no county page is fetched twice;
\* the run never aborts and can always go on until it returns; and when it
\* has returned, every spot was fetched exactly once, the county page once,
\* every spot has a section, a failed fetch gave the placeholder, and a
\* section is the placeholder only for its own failed or wave-less fetch.
C7_ReportDegrades ==
    /\ rpc # "raised"
    /\ county_fetches <= 1
    /\ \A s \in SpotIds : fetches[s] <= 1
    /\ rpc # "done" => ENABLED NextReport
    /\ rpc = "done" =>
          /\ county_fetches = 1
          /\ Len(sections) = Len(SPOTS)
          /\ \A s \in SpotIds :
                /\ fetches[s] = 1
                /\ sections[s].name = SPOTS[s].name
                /\ net[s].fails => sections[s].kind = "Data unavailable"
                /\ sections[s].kind = "Data unavailable" =>
                      (net[s].fails \/ net[s].data.waves_ft = <<>>)

\* the first spot's fetch failed, the second spot still got its report and
\* the county lines were still added
C7_Witness ==
    /\ rpc = "done"
    /\ net[1].fails
    /\ sections[1].kind = "Data unavailable"
    /\ sections[2].kind = "report"
    /\ sections[2].weekend # <<>>
    /\ county_net.ok
    /\ best_part # <<>>

----------------------------------------------------------------------------
(* Telegram, the command handler and the scheduled jobs *)

TELEGRAM_CHAT_ID == "1552583800"

DAILY_HOUR == 6
TICKER_START == 6
TICKER_END == 18

\* send(msg): one POST to sendMessage, for the configured chat; an exception
\* of the request is caught
send(msg) == << [chat_id |-> TELEGRAM_CHAT_ID, msg |-> msg] >>

\* `if msg: send(msg)`
SendIfAny(msg) == IF msg.kind # "" THEN send(msg) ELSE <<>>

Message(kind) == [kind |-> kind, about |-> <<>>]

\* the keys of BEACH_LOCATIONS
BEACH_CODES == { <<"s", "p", "o">>,
                 <<"v", "a", "n">>,
                 <<"p", "e", "d", "r", "o">>,
                 <<"p", "a", "r", "a", "d", "i", "s", "e">>,
                 <<"b", "e", "l", "m", "o", "n", "t">>,
                 <<"f", "l", "e", "t", "c", "h", "e", "r">>,
                 <<"p", "i", "e", "d", "r", "a">>,
                 <<"o", "x", "n", "a", "r", "d">>,
                 <<"c", "a", "r", "p">>,
                 <<"e", "a", "s", "t">> }

\* text.split(): the maximal runs of non-whitespace characters
RECURSIVE SplitToken(_)
SplitToken(s) ==
    IF s = <<>> \/ Head(s) \in WhiteSpace THEN <<>>
    ELSE <<Head(s)>> \o SplitToken(Tail(s))

RECURSIVE Split(_)
Split(s) ==
    LET t == LStrip(s)
        tok == SplitToken(t)
    IN  IF t = <<>> THEN <<>>
        ELSE <<tok>> \o Split(SubSeq(t, Len(tok) + 1, Len(t)))

\* beach_report(loc_code): the list of locations, the "Unknown location"
\* text, or the report of that beach
beach_report(loc) ==
    IF ~loc.given THEN Message("Beach Locations")
    ELSE IF loc.code \notin BEACH_CODES
    THEN [kind |-> "Unknown location", about |-> loc.code]
    ELSE [kind |-> "beach report", about |-> loc.code]

\* Bot.handle(text): the calls to send it makes
handle(text) ==
    IF text = <<"/">> THEN send(Message("SurfBot Commands"))
    ELSE IF text \in {<<"/", "s", "u", "r", "f">>, <<"/", "n", "o", "w">>}
    THEN SendIfAny(Message("hourly_top10"))
    ELSE IF text \in {<<"/", "w", "e", "e", "k">>, <<"/", "f", "o", "r", "e", "c", "a", "s", "t">>}
    THEN send(Message("daily_report"))
    ELSE IF text = <<"/", "l", "o", "c", "a", "l">> THEN send(Message("local_overview"))
    ELSE IF StartsWith(text, <<"/", "b", "e", "a", "c", "h">>)
    THEN LET parts == Split(text)
             loc == IF Len(parts) > 1 THEN [given |-> TRUE, code |-> parts[2]]
                    ELSE [given |-> FALSE, code |-> <<>>]
         IN  SendIfAny(beach_report(loc))
    ELSE IF text = <<"/", "c", "o", "a", "s", "t">> THEN SendIfAny(Message("coast_overview"))
    ELSE IF text = <<"/", "h", "e", "l", "p">> THEN send(Message("Reading the Reports"))
    ELSE IF text = <<"/", "p", "i", "n", "g">> THEN send(Message("SurfBot alive!"))
    ELSE <<>>

\* the start dates of GUSD_BREAKS
GUSD_BREAK_STARTS ==
    { "2025-11-25", "2025-12-23", "2026-01-20", "2026-02-16",
      "2026-03-30", "2026-05-25", "2026-06-11" }

\* is_school_break_tomorrow(), on tomorrow's date
is_school_break_tomorrow(tomorrow) == tomorrow \in GUSD_BREAK_STARTS

\* weekend_beach_digest(): Saturdays only (WEEKEND_BEACH_DIGEST is True)
weekend_beach_digest(weekday) ==
    IF weekday # 5 THEN <<>> ELSE send(Message("Family Beach Day"))

\* school_break_alert() (SCHOOL_BREAK_ALERTS is True)
school_break_alert(tomorrow) ==
    IF ~is_school_break_tomorrow(tomorrow) THEN <<>>
    ELSE send(Message("Kids Off Tomorrow!"))

\* heat_wave_alert() for an inland forecast at or above HEAT_THRESHOLD_F
heat_wave_alert_hot == send(Message("Hot Day Tomorrow"))

\* the evening check with the heat alert switched on
check_evening_alerts_WithHeat(tomorrow) ==
    school_break_alert(tomorrow) \o heat_wave_alert_hot

\* check_evening_alerts(): school_break_alert() only; the heat alert is
\* commented out
check_evening_alerts(tomorrow) == school_break_alert(tomorrow)

\* maybe_hourly()
maybe_hourly(hour) ==
    IF TICKER_START <= hour /\ hour < TICKER_END
    THEN SendIfAny(Message("hourly_top10"))
    ELSE <<>>

\* the job registered for the daily report: send(daily_report())
daily_job == send(Message("daily_report"))

\* the host's local time, which `schedule` goes by
LocalHour == (clock_h + host_off) % 24
LocalWeekday == (clock_wd + ((clock_h + host_off) \div 24)) % 7

\* texts as they arrive in a message
RawTexts ==
    { <<"/">>,
      <<"/", "s", "u", "r", "f">>,
      <<"/", "N", "o", "w">>,
      <<"/", "w", "e", "e", "k">>,
      <<"/", "f", "o", "r", "e", "c", "a", "s", "t">>,
      <<"/", "l", "o", "c", "a", "l", " ">>,
      <<"/", "b", "e", "a", "c", "h">>,
      <<"/", "b", "e", "a", "c", "h", " ", "c", "a", "r", "p">>,
      <<"/", "B", "E", "A", "C", "H", " ", " ", "s", "p", "o", " ", "x">>,
      <<"/", "b", "e", "a", "c", "h", " ", "x", "y", "z">>,
      <<"/", "b", "e", "a", "c", "h", "f", "o", "o">>,
      <<"/", "c", "o", "a", "s", "t">>,
      <<"/", "h", "e", "l", "p">>,
      <<"/", "p", "i", "n", "g">>,
      <<"h", "e", "l", "l", "o">>,
      <<"/", "s", "u", "r", "f", "i", "n", "g">>,
      <<"p", "i", "n", "g">>,
      <<"/", " ", "b", "e", "a", "c", "h">>,
      <<>> }

\* text = u["message"]["text"].lower().strip(), as Bot.listen hands it on
ListenText(raw) == Strip(Lower(raw))

HandleTexts == { ListenText(raw) : raw \in RawTexts }

\* tomorrow's date at the evening check
SampleDates == { "2025-11-25", "2025-11-26", "2026-06-11", "2026-07-04" }

InitCommands ==
    /\ IdleMore
    /\ clock_wd \in 0..6
    /\ clock_h = 0
    /\ host_off \in {0, 8}
    /\ last_event = "start"
    /\ last_text = <<>>
    /\ outbox = <<>>
    /\ IdleWindows
    /\ IdleCounty
    /\ IdleReport
    /\ IdleListen

\* an hour passes
Tick ==
    /\ clock_h' = (clock_h + 1) % 24
    /\ clock_wd' = IF clock_h = 23 THEN (clock_wd + 1) % 7 ELSE clock_wd
    /\ UNCHANGED <<moreVars, host_off, last_event, last_text, outbox,
                   winVars, countyVars, reportVars, listenVars>>

\* Bot.handle(text) for an inbound text
Handle(text) ==
    /\ last_event' = "handle"
    /\ last_text' = text
    /\ outbox' = handle(text)
    /\ UNCHANGED <<moreVars, clock_wd, clock_h, host_off, winVars, countyVars, reportVars, listenVars>>

\* schedule.every().day.at("06:00"): send(daily_report())
DailyJob ==
    /\ LocalHour = DAILY_HOUR
    /\ last_event' = "daily"
    /\ outbox' = daily_job
    /\ UNCHANGED <<moreVars, clock_wd, clock_h, host_off, last_text,
                   winVars, countyVars, reportVars, listenVars>>

\* schedule.every().saturday.at("07:00"): weekend_beach_digest()
DigestJob ==
    /\ LocalWeekday = 5
    /\ LocalHour = 7
    /\ last_event' = "digest"
    /\ outbox' = weekend_beach_digest(clock_wd)
    /\ UNCHANGED <<moreVars, clock_wd, clock_h, host_off, last_text,
                   winVars, countyVars, reportVars, listenVars>>

\* schedule.every().day.at("20:00"): check_evening_alerts()
EveningJob ==
    /\ LocalHour = 20
    /\ last_event' = "evening"
    /\ \E tomorrow \in SampleDates : outbox' = check_evening_alerts(tomorrow)
    /\ UNCHANGED <<moreVars, clock_wd, clock_h, host_off, last_text,
                   winVars, countyVars, reportVars, listenVars>>

\* schedule.every().hour.at(":00"): maybe_hourly()
HourlyJob ==
    /\ last_event' = "hourly"
    /\ outbox' = maybe_hourly(clock_h)
    /\ UNCHANGED <<moreVars, clock_wd, clock_h, host_off, last_text,
                   winVars, countyVars, reportVars, listenVars>>

NextCommands ==
    \/ Tick
    \/ \E text \in HandleTexts : Handle(text)
    \/ DailyJob
    \/ DigestJob
    \/ EveningJob
    \/ HourlyJob

SpecCommands == InitCommands /\ [][NextCommands]_vars

----------------------------------------------------------------------------
(* Commands and jobs: what the claims speak of *)

\* C8: a command handled by Bot.handle, or a firing of a scheduled job, makes
\* at most one call to send, and that call is for the configured chat id.
C8_AtMostOneSend ==
    /\ Len(outbox) <= 1
    /\ \A i \in 1..Len(outbox) : outbox[i].chat_id = "1552583800"

\* the evening check on the eve of a school break has sent its one message
C8_Witness ==
    /\ last_event = "evening"
    /\ Len(outbox) = 1
    /\ outbox[1].msg.kind = "Kids Off Tomorrow!"
    /\ outbox[1].chat_id = "1552583800"

\* the commands of the command surface
PlainCommands ==
    { <<"/">>,
      <<"/", "s", "u", "r", "f">>,
      <<"/", "n", "o", "w">>,
      <<"/", "w", "e", "e", "k">>,
      <<"/", "f", "o", "r", "e", "c", "a", "s", "t">>,
      <<"/", "l", "o", "c", "a", "l">>,
      <<"/", "c", "o", "a", "s", "t">>,
      <<"/", "h", "e", "l", "p">>,
      <<"/", "p", "i", "n", "g">> }

\* `/beach` alone, or `/beach`, whitespace, and a code
IsBeachCommand(text) ==
    \/ text = <<"/", "b", "e", "a", "c", "h">>
    \/ /\ StartsWith(text, <<"/", "b", "e", "a", "c", "h">>)
       /\ Len(text) > 6
       /\ text[7] \in WhiteSpace
       /\ Len(Split(text)) >= 2

IsCommand(text) == text \in PlainCommands \/ IsBeachCommand(text)

\* C9: for an inbound text that is none of the commands, Bot.handle sends
\* no message.
C9_UnrecognizedSilent ==
    (last_event = "handle" /\ ~IsCommand(last_text)) => outbox = <<>>

\* every text that is a command gets its reply, and plain chatter gets none
C9_CommandsAnswered ==
    last_event = "handle" =>
        /\ IsCommand(last_text) => Len(outbox) = 1
        /\ ~StartsWith(last_text, <<"/", "b", "e", "a", "c", "h">>) /\ ~IsCommand(last_text)
              => outbox = <<>>

----------------------------------------------------------------------------
(* The update listener *)

\* the offset of a poll that asks again for the update the cursor is on
PollOffset_Same(cursor) == cursor

PollOffset_Skip(cursor) == cursor + 2

\* params={"offset": self.last_update_id + 1, ...}
PollOffset(cursor) == cursor + 1

ListenChat_Any(u) == TELEGRAM_CHAT_ID

\* str(u.get("message", {}).get("chat", {}).get("id", ""))
ListenChat(u) == IF u.has_message THEN u.chat ELSE ""

\* u.get("message", {}).get("text", "").lower().strip()
ListenTextOf(u) == IF u.has_message THEN ListenText(u.text) ELSE <<>>

\* the branches of Bot.handle that build a report before they send, and so
\* can raise
MayRaise(text) ==
    \/ text \in {<<"/", "s", "u", "r", "f">>, <<"/", "n", "o", "w">>, <<"/", "w", "e", "e", "k">>, <<"/", "f", "o", "r", "e", "c", "a", "s", "t">>, <<"/", "l", "o", "c", "a", "l">>, <<"/", "c", "o", "a", "s", "t">>}
    \/ StartsWith(text, <<"/", "b", "e", "a", "c", "h">>)

\* the members of a set of numbers, in increasing order
RECURSIVE Ascending(_)
Ascending(S) ==
    IF S = {} THEN <<>>
    ELSE LET m == CHOOSE x \in S : \A y \in S : x <= y
         IN  <<m>> \o Ascending(S \ {m})

\* what getUpdates may answer to an offset: updates of that id or a later
\* one, in increasing order of id
TransportAnswers(offset) ==
    { [i \in 1..Len(ids) |-> updates[ids[i]]] :
        ids \in { Ascending(S) :
                  S \in SUBSET { id \in 1..Len(updates) : id >= offset } } }

\* what an update can carry: a message of the configured chat, a message of
\* another chat, or no message at all
UpdateBodies ==
    { [has_message |-> TRUE, chat |-> TELEGRAM_CHAT_ID, text |-> <<"/", "P", "i", "n", "g", " ">>],
      [has_message |-> TRUE, chat |-> TELEGRAM_CHAT_ID, text |-> <<"/", "w", "e", "e", "k">>],
      [has_message |-> TRUE, chat |-> "42", text |-> <<"/", "p", "i", "n", "g">>],
      [has_message |-> FALSE, chat |-> "", text |-> <<>>] }

InitListen ==
    /\ IdleMore
    /\ updates = <<>>
    /\ last_update_id = 0
    /\ lpc = "poll"
    /\ batch = <<>>
    /\ handled = <<>>
    /\ dropped = {}
    /\ clock_wd = 0
    /\ clock_h = 0
    /\ host_off = 0
    /\ last_event = "start"
    /\ last_text = <<>>
    /\ outbox = <<>>
    /\ IdleWindows
    /\ IdleCounty
    /\ IdleReport

\* somebody sends the bot something: the transport numbers it
Arrive(body) ==
    /\ Len(updates) < MaxUpdates
    /\ updates' = Append(updates,
                         [update_id |-> Len(updates) + 1, has_message |-> body.has_message,
                          chat |-> body.chat, text |-> body.text])
    /\ UNCHANGED <<moreVars, dropped, last_update_id, lpc, batch, handled, last_event, last_text, outbox,
                   clock_wd, clock_h, host_off, winVars, countyVars, reportVars>>

\* requests.get(getUpdates, offset) answered: the loop over "result" starts
PollAnswered ==
    /\ lpc = "poll"
    /\ \E answer \in TransportAnswers(PollOffset(last_update_id)) :
          /\ batch' = answer
          /\ lpc' = IF answer = <<>> THEN "poll" ELSE "batch"
    /\ UNCHANGED <<moreVars, dropped, updates, last_update_id, handled, last_event, last_text, outbox,
                   clock_wd, clock_h, host_off, winVars, countyVars, reportVars>>

\* requests.get or r.json() raises: "Listen error", then the sleep
PollFailed ==
    /\ lpc = "poll"
    /\ lpc' = "sleep"
    /\ batch' = <<>>
    /\ UNCHANGED <<moreVars, dropped, updates, last_update_id, handled, last_event, last_text, outbox,
                   clock_wd, clock_h, host_off, winVars, countyVars, reportVars>>

\* one pass of the loop for an update of the configured chat: the cursor is
\* moved, then Bot.handle runs and returns
HandleUpdate ==
    /\ lpc = "batch"
    /\ LET u == Head(batch)
       IN  /\ ListenChat(u) = TELEGRAM_CHAT_ID
           /\ last_update_id' = u.update_id
           /\ handled' = Append(handled, u.update_id)
           /\ last_event' = "handle"
           /\ last_text' = ListenTextOf(u)
           /\ outbox' = handle(ListenTextOf(u))
    /\ batch' = Tail(batch)
    /\ lpc' = IF Tail(batch) = <<>> THEN "poll" ELSE "batch"
    /\ UNCHANGED <<moreVars, dropped, updates, clock_wd, clock_h, host_off, winVars, countyVars, reportVars>>

\* the same pass when Bot.handle raises before its send: the rest of the
\* answer is abandoned for the except branch
HandleUpdateRaises ==
    /\ lpc = "batch"
    /\ LET u == Head(batch)
       IN  /\ ListenChat(u) = TELEGRAM_CHAT_ID
           /\ MayRaise(ListenTextOf(u))
           /\ last_update_id' = u.update_id
           /\ handled' = Append(handled, u.update_id)
           /\ last_event' = "handle raised"
           /\ last_text' = ListenTextOf(u)
           /\ outbox' = <<>>
    /\ dropped' = dropped \cup { batch[i].update_id : i \in 2..Len(batch) }
    /\ batch' = <<>>
    /\ lpc' = "sleep"
    /\ UNCHANGED <<moreVars, updates, clock_wd, clock_h, host_off, winVars, countyVars, reportVars>>

\* one pass of the loop for an update of another chat or without a message:
\* the cursor is moved and nothing else happens
SkipUpdate ==
    /\ lpc = "batch"
    /\ LET u == Head(batch)
       IN  /\ ListenChat(u) # TELEGRAM_CHAT_ID
           /\ last_update_id' = u.update_id
           /\ last_event' = "ignored"
           /\ last_text' = ListenTextOf(u)
           /\ outbox' = <<>>
    /\ batch' = Tail(batch)
    /\ lpc' = IF Tail(batch) = <<>> THEN "poll" ELSE "batch"
    /\ UNCHANGED <<moreVars, dropped, updates, handled, clock_wd, clock_h, host_off,
                   winVars, countyVars, reportVars>>

\* time.sleep(5), then the next poll
Sleep ==
    /\ lpc = "sleep"
    /\ lpc' = "poll"
    /\ UNCHANGED <<moreVars, dropped, updates, last_update_id, batch, handled, last_event, last_text, outbox,
                   clock_wd, clock_h, host_off, winVars, countyVars, reportVars>>

NextListen ==
    \/ \E body \in UpdateBodies : Arrive(body)
    \/ PollAnswered
    \/ PollFailed
    \/ HandleUpdate
    \/ HandleUpdateRaises
    \/ SkipUpdate
    \/ Sleep

SpecListen == InitListen /\ [][NextListen]_vars

----------------------------------------------------------------------------
(* The update listener: what the claims speak of *)

\* C10: no update is handed to Bot.handle twice: the ids handed over are all
\* different, none lies beyond the cursor (the cursor is on an update before
\* it is handled), and every update still waiting in the current answer lies
\* beyond the cursor (a poll asks only for ids past it).
C10_HandledOnce ==
    /\ \A i, j \in 1..Len(handled) : handled[i] = handled[j] => i = j
    /\ \A i \in 1..Len(handled) : handled[i] <= last_update_id
    /\ \A i \in 1..Len(batch) : batch[i].update_id > last_update_id

\* two updates of the configured chat handled once each, an ignored one
\* between them, the second handling having raised
C10_Witness ==
    /\ handled = <<1, 3>>
    /\ ListenChat(updates[2]) # TELEGRAM_CHAT_ID
    /\ last_update_id = 3
    /\ last_event = "handle raised"
    /\ lpc = "sleep"

----------------------------------------------------------------------------
(* main: the startup message, the scheduler thread, the listener *)

\* what the transport can make of the configured TELEGRAM_TOKEN
Credentials == { "valid", "unauthorized", "unreachable" }

InitStartup ==
    /\ IdleHelpers
    /\ IdleParse
    /\ IdleTicker
    /\ creds \in Credentials
    /\ mpc = "start"
    /\ scheduler = FALSE
    /\ updates = <<>>
    /\ last_update_id = 0
    /\ lpc = "idle"
    /\ batch = <<>>
    /\ handled = <<>>
    /\ dropped = {}
    /\ clock_wd = 0
    /\ clock_h = 0
    /\ host_off = 0
    /\ last_event = "idle"
    /\ last_text = <<>>
    /\ outbox = <<>>
    /\ IdleWindows
    /\ IdleCounty
    /\ IdleReport

\* main(): send the "SurfBot Online" message (send attempts the post, prints
\* and swallows an exception, never looks at the HTTP status, so main gets
\* the same return whatever creds is), start run_scheduler as a daemon
\* thread, construct Bot and enter listen
Main ==
    /\ mpc = "start"
    /\ last_event' = "main"
    /\ outbox' = send(Message("online"))
    /\ mpc' = "running"
    /\ scheduler' = TRUE
    /\ last_update_id' = 0
    /\ lpc' = "poll"
    /\ UNCHANGED <<creds, helperVars, parseVars, tickerVars, updates, batch, handled, dropped, last_text, clock_wd, clock_h,
                   host_off, winVars, countyVars, reportVars>>

\* getUpdates answered with an error body ({"ok": false, ...}): .get("result", [])
\* is the empty list, nothing raises, and the loop polls again at once
PollRejected ==
    /\ lpc = "poll"
    /\ creds = "unauthorized"
    /\ last_event' = "poll rejected"
    /\ outbox' = <<>>
    /\ batch' = <<>>
    /\ UNCHANGED <<moreVars, updates, last_update_id, lpc, handled, dropped, last_text,
                   clock_wd, clock_h, host_off, winVars, countyVars, reportVars>>

NextStartup ==
    \/ Main
    \/ \E body \in UpdateBodies : Arrive(body)
    \/ creds = "valid" /\ PollAnswered
    \/ creds # "unauthorized" /\ PollFailed
    \/ PollRejected
    \/ HandleUpdate
    \/ HandleUpdateRaises
    \/ SkipUpdate
    \/ Sleep

SpecStartup == InitStartup /\ [][NextStartup]_vars

(* C11: when the startup configuration is unusable (the transport rejects  *)
(* the token, or cannot be reached, so that the startup send fails), the   *)
(* process aborts at startup and neither the scheduler thread nor the      *)
(* listener loop is entered.                                               *)
C11_AbortsAtStartup ==
    (creds # "valid" /\ mpc # "start") =>
        /\ mpc = "aborted"
        /\ scheduler = FALSE
        /\ lpc = "idle"

\* what the code does instead: with a rejected token the loops run
C11_RunsAnyway ==
    (mpc # "start") => (mpc = "running" /\ scheduler /\ lpc \in {"poll", "batch", "sleep"})

----------------------------------------------------------------------------
(* The helper functions, called on their own *)

\* A Python value handed to a helper: None, a str, or a number written as
\* mant / 10^dec (mant may be negative).
PyNone == [kind |-> "none"]
PyText(t) == [kind |-> "text", text |-> t]
PyNum(mant, dec) == [kind |-> "num", mant |-> mant, dec |-> dec]

Raised == [done |-> TRUE, raised |-> TRUE]
Returned(v) == [done |-> TRUE, raised |-> FALSE, v |-> v]

RECURSIVE Pow10(_)
Pow10(k) == IF k = 0 THEN 1 ELSE 10 * Pow10(k - 1)

\* the largest power of two not above n (n >= 1)
RECURSIVE Pow2Floor(_)
Pow2Floor(n) == IF n < 2 THEN 1 ELSE 2 * Pow2Floor(n \div 2)

Abs(n) == IF n < 0 THEN 0 - n ELSE n

\* float(text) for text without exponent, "inf", "nan" or "_": surrounding
\* whitespace, one optional sign, digits with at most one point and at least
\* one digit; anything else raises ValueError (ok = FALSE)
ParseFloat(text) ==
    LET t == Strip(text)
        signed == t # <<>> /\ Head(t) \in {"+", "-"}
        body == IF signed THEN Tail(t) ELSE t
        points == { i \in 1..Len(body) : body[i] = "." }
        digits == SelectSeq(body, IsDigitChar)
    IN  IF /\ Cardinality(points) <= 1
           /\ digits # <<>>
           /\ Len(digits) + Cardinality(points) = Len(body)
        THEN [ok |-> TRUE,
              mant |-> IF signed /\ Head(t) = "-" THEN 0 - DigitsValue(digits)
                       ELSE DigitsValue(digits),
              dec |-> IF points = {} THEN 0
                      ELSE Len(body) - (CHOOSE i \in points : TRUE)]
        ELSE [ok |-> FALSE, mant |-> 0, dec |-> 0]

\* round(x * 3.28) for x = mant / 10^dec >= 0 in double arithmetic.  The
\* double 3.28 is 11/(25 * 2^51) below 3.28, so x * 3.28 is computed just
\* below the real product.  That only matters when the real product is a
\* half k + 1/2 (then x is a multiple of 6.25, which is exact): the product
\* is rounded to the double k + 1/2 itself when 44 * x / 25 is below the
\* largest power of two not above k, and round() goes to the even side; else
\* it falls to the double below and round() gives k.
RoundTimes328(mant, dec) ==
    LET n == mant * 328
        d == Pow10(dec + 2)
        k == n \div d
    IN  IF 2 * (n % d) # d THEN RoundDiv(n, d)
        ELSE IF 44 * mant < 25 * Pow10(dec) * Pow2Floor(k) THEN RoundDiv(n, d)
        ELSE k

\* round(float(m) * 3.28) of a number; round() is symmetric about zero
FeetOf(mant, dec) ==
    IF mant < 0 THEN 0 - RoundTimes328(0 - mant, dec) ELSE RoundTimes328(mant, dec)

meters_to_feet_NoCatch(m) ==
    IF m.kind = "none" THEN Raised
    ELSE IF m.kind = "num" THEN Returned(FeetOf(m.mant, m.dec))
    ELSE LET x == ParseFloat(m.text)
         IN  IF x.ok THEN Returned(FeetOf(x.mant, x.dec)) ELSE Raised

\* meters_to_feet(m): try round(float(m) * 3.28), bare except -> 0
meters_to_feet(m) ==
    IF m.kind = "none" THEN Returned(0)
    ELSE IF m.kind = "num" THEN Returned(FeetOf(m.mant, m.dec))
    ELSE LET x == ParseFloat(m.text)
         IN  IF x.ok THEN Returned(FeetOf(x.mant, x.dec)) ELSE Returned(0)

\* re.search over a character class: the first longest run of its characters
DigitChars == { Digits[i] : i \in 1..10 }
MeterChars == DigitChars \cup {"."}

RECURSIVE TakeWhile(_, _)
TakeWhile(v, chars) ==
    IF v # <<>> /\ Head(v) \in chars THEN <<Head(v)>> \o TakeWhile(Tail(v), chars) ELSE <<>>

RECURSIVE FirstRun(_, _)
FirstRun(v, chars) ==
    IF v = <<>> THEN <<>>
    ELSE IF Head(v) \in chars THEN TakeWhile(v, chars)
    ELSE FirstRun(Tail(v), chars)

\* the element of waves_m made of a wave-height cell value
WaveMeters(v) == IF FirstRun(v, MeterChars) = <<>> THEN <<"0">> ELSE FirstRun(v, MeterChars)

\* data["waves_m"] of a wave row's values, then data["waves_ft"]; a raise
\* inside the comprehension would leave fetch_spot through its except
WavesOf(values) ==
    LET waves_m == [i \in 1..Len(values) |-> WaveMeters(values[i])]
        feet == [i \in 1..Len(waves_m) |-> meters_to_feet(PyText(waves_m[i]))]
    IN  IF \E i \in 1..Len(feet) : feet[i].raised THEN Raised
        ELSE Returned([waves_m |-> waves_m,
                       waves_ft |-> [i \in 1..Len(feet) |-> feet[i].v]])

\* f_to_c(f) = round((f - 32) * 5/9), for f a whole number of degrees
f_to_c_Floor(f) == (5 * (f - 32)) \div 9

f_to_c(f) == RoundDiv(5 * (f - 32), 9)

\* c_to_f called with any value: None * 9 and str * 9 / 5 raise TypeError.
\* A number mant / 10^dec is exact in double arithmetic for the values drawn
\* (whole and half degrees).
c_to_f_call(c) ==
    IF c.kind = "num"
    THEN Returned(RoundDiv(9 * c.mant + 160 * Pow10(c.dec), 5 * Pow10(c.dec)))
    ELSE Raised

\* f_to_c called with any value: None - 32 and str - 32 raise TypeError
f_to_c_call(f) ==
    IF f.kind = "num"
    THEN Returned(RoundDiv(5 * (f.mant - 32 * Pow10(f.dec)), 9 * Pow10(f.dec)))
    ELSE Raised

\* c_to_f(f_to_c(f)) with the value in between
round_trip(f) == [c |-> f_to_c(f), back |-> c_to_f(f_to_c(f))]

\* wind_text called with None or a str: (state or "").lower()
wind_text_call(state) ==
    IF state.kind = "none" THEN Returned(wind_text(<<>>))
    ELSE IF state.kind = "text" THEN Returned(wind_text(state.text))
    ELSE IF state.mant = 0 THEN Returned(wind_text(<<>>))
    ELSE Raised

\* all sequences over S of length at most n
SeqsUpTo(S, n) == UNION { [1..k -> S] : k \in 0..n }

\* texts handed to meters_to_feet: everything short over a few characters,
\* and two longer ones
MeterTexts ==
    SeqsUpTo({"2", "5", "6", ".", "-", "x", " "}, MaxText)
        \cup { <<"1","8",".","7","5">>, <<"1",".","2",".","3">> }

MeterNumbers ==
    { PyNum(0, 0), PyNum(2, 0), PyNum(15, 1), PyNum(625, 2), PyNum(1875, 2), PyNum(0 - 15, 1) }

MeterArgs == {PyNone} \cup { PyText(t) : t \in MeterTexts } \cup MeterNumbers

\* values of the cells of a wave-height row
WaveCells ==
    { <<"1",".","5","m">>, <<>>, <<"n","/","a">>, <<"6",".","2","5"," ","m">>, <<"-","2">>,
      <<"1",".","2",".","3">>, <<".">>, <<"3"," ","f","t"," ","1",".","5","m">> }

\* values handed to the temperature converters
TempArgs ==
    {PyNone} \cup { PyText(t) : t \in { <<>>, <<"1","8">>, <<"w","a","r","m">> } }
        \cup { PyNum(n, 0) : n \in {0 - 40, 0, 18, 32, 100} } \cup { PyNum(25, 1) }

\* the Fahrenheit range of the round trip
FahrenheitRange == (0 - 50)..150

\* pieces wind-state texts are put together from
WindWords ==
    { <<"G","l","a","s","s","y">>, <<"O","F","F">>, <<"C","r","o","s","s">>, <<"o","n">>,
      <<"-","s","h","o","r","e">>, <<"l","i","g","h","t">>, <<" ">>, <<"f","f">>, <<"n">> }

RECURSIVE Concat(_)
Concat(parts) == IF parts = <<>> THEN <<>> ELSE Head(parts) \o Concat(Tail(parts))

WindTexts == { Concat(ps) : ps \in SeqsUpTo(WindWords, MaxWords) }

HelperCalls ==
    { [fn |-> "meters_to_feet", arg |-> a] : a \in MeterArgs }
        \cup { [fn |-> "waves_ft", arg |-> vs] : vs \in SeqsUpTo(WaveCells, MaxCells) }
        \cup { [fn |-> f, arg |-> a] : f \in {"c_to_f", "f_to_c"}, a \in TempArgs }
        \cup { [fn |-> "round_trip", arg |-> f] : f \in FahrenheitRange }
        \cup { [fn |-> "wind_text", arg |-> a] : a \in {PyNone} \cup { PyText(t) : t \in WindTexts } }

IdleOthers ==
    /\ IdleStartup
    /\ IdleParse
    /\ IdleTicker
    /\ IdleWindows
    /\ IdleCounty
    /\ IdleReport
    /\ IdleCommands
    /\ IdleListen

InitHelpers ==
    /\ call \in HelperCalls
    /\ ret = [done |-> FALSE]
    /\ IdleOthers

otherVars ==
    <<winVars, countyVars, reportVars, cmdVars, listenVars, startVars, parseVars, tickerVars>>

MetersToFeet ==
    /\ call.fn = "meters_to_feet"
    /\ ~ret.done
    /\ ret' = meters_to_feet(call.arg)
    /\ UNCHANGED <<call, otherVars>>

\* fetch_spot: waves_m of the wave row, waves_ft of waves_m
WavesFt ==
    /\ call.fn = "waves_ft"
    /\ ~ret.done
    /\ ret' = WavesOf(call.arg)
    /\ UNCHANGED <<call, otherVars>>

CToF ==
    /\ call.fn = "c_to_f"
    /\ ~ret.done
    /\ ret' = c_to_f_call(call.arg)
    /\ UNCHANGED <<call, otherVars>>

FToC ==
    /\ call.fn = "f_to_c"
    /\ ~ret.done
    /\ ret' = f_to_c_call(call.arg)
    /\ UNCHANGED <<call, otherVars>>

RoundTrip ==
    /\ call.fn = "round_trip"
    /\ ~ret.done
    /\ ret' = Returned(round_trip(call.arg))
    /\ UNCHANGED <<call, otherVars>>

WindText ==
    /\ call.fn = "wind_text"
    /\ ~ret.done
    /\ ret' = wind_text_call(call.arg)
    /\ UNCHANGED <<call, otherVars>>

NextHelpers ==
    \/ MetersToFeet
    \/ WavesFt
    \/ CToF
    \/ FToC
    \/ RoundTrip
    \/ WindText

SpecHelpers == InitHelpers /\ [][NextHelpers]_vars

\* numeric text as the claim means it: whitespace around, an optional sign,
\* then digits, optionally a point, digits; at least one digit
IsNumericText(t) ==
    LET u == Strip(t)
        b == IF u # <<>> /\ Head(u) \in {"+", "-"} THEN Tail(u) ELSE u
    IN  \E k \in 0..Len(b) :
           LET ip == SubSeq(b, 1, k)
               rest == SubSeq(b, k + 1, Len(b))
               fp == IF rest = <<>> THEN <<>> ELSE Tail(rest)
           IN  /\ rest = <<>> \/ Head(rest) = "."
               /\ \A i \in 1..Len(ip) : IsDigitChar(ip[i])
               /\ \A i \in 1..Len(fp) : IsDigitChar(fp[i])
               /\ Len(ip) + Len(fp) > 0

IsNumeric(a) == a.kind = "num" \/ (a.kind = "text" /\ IsNumericText(a.text))

\* x * 3.28 as the fraction num / den, for a numeric argument
Times328(a) ==
    IF a.kind = "num" THEN [num |-> a.mant * 328, den |-> Pow10(a.dec + 2)]
    ELSE [num |-> ParseFloat(a.text).mant * 328, den |-> Pow10(ParseFloat(a.text).dec + 2)]

(* C12: meters_to_feet never raises; for a numeric value or numeric text x *)
(* it returns round(x * 3.28), an integer nearest to x * 3.28, and for     *)
(* every other input 0; every element of waves_ft is a non-negative        *)
(* integer and waves_ft is as long as waves_m.                             *)
C12_MetersToFeet ==
    /\ (ret.done /\ call.fn = "meters_to_feet") =>
          /\ ~ret.raised
          /\ ret.v \in Int
          /\ IF IsNumeric(call.arg)
             THEN LET p == Times328(call.arg)
                  IN  2 * Abs(ret.v * p.den - p.num) <= p.den
             ELSE ret.v = 0
    /\ (ret.done /\ call.fn = "waves_ft") =>
          /\ ~ret.raised
          /\ Len(ret.v.waves_ft) = Len(ret.v.waves_m)
          /\ Len(ret.v.waves_m) = Len(call.arg)
          /\ \A i \in 1..Len(ret.v.waves_ft) : ret.v.waves_ft[i] \in Nat

C12_Witness ==
    /\ ret.done
    /\ call.fn = "waves_ft"
    /\ call.arg = << <<"6",".","2","5"," ","m">>, <<".">> >>
    /\ ret.v.waves_m = << <<"6",".","2","5">>, <<".">> >>
    /\ ret.v.waves_ft = <<20, 0>>

(* C13: c_to_f and f_to_c are total: no input, a non-numeric or missing    *)
(* (None) value included, makes them raise.                                *)
C13_ConvertersTotal ==
    (ret.done /\ call.fn \in {"c_to_f", "f_to_c"}) => ~ret.raised

\* what the code does: numbers are converted, anything else raises
C13_NumbersOnly ==
    (ret.done /\ call.fn \in {"c_to_f", "f_to_c"}) => (ret.raised <=> call.arg.kind # "num")

(* C14: for every whole f from -50 to 150, c_to_f(f_to_c(f)) is within 1   *)
(* of f.                                                                   *)
C14_RoundTrip ==
    (ret.done /\ call.fn = "round_trip") =>
        /\ call.arg \in FahrenheitRange
        /\ Abs(ret.v.back - call.arg) <= 1

C14_Witness ==
    /\ ret.done
    /\ call.fn = "round_trip"
    /\ call.arg = 0 - 50
    /\ ret.v.c = 0 - 46
    /\ ret.v.back = 0 - 51

\* the text wind_text looks at: None counts as the empty text
WindInput == IF call.arg.kind = "text" THEN Lower(call.arg.text) ELSE <<>>

(* C15: wind_text, whatever the letter case: "glass" or "off" in the input *)
(* gives "calm" even when "cross" or "on" is there too; otherwise "cross"  *)
(* without "on" gives "light wind"; every other input, None and the empty  *)
(* text included, gives "windy"; nothing else is ever returned.            *)
C15_WindPrecedence ==
    (ret.done /\ call.fn = "wind_text") =>
        LET calm == Contains(WindInput, <<"g","l","a","s","s">>)
                        \/ Contains(WindInput, <<"o","f","f">>)
            light == Contains(WindInput, <<"c","r","o","s","s">>)
                        /\ ~Contains(WindInput, <<"o","n">>)
        IN  /\ ~ret.raised
            /\ ret.v \in {"calm", "light wind", "windy"}
            /\ calm => ret.v = "calm"
            /\ (~calm /\ light) => ret.v = "light wind"
            /\ (~calm /\ ~light) => ret.v = "windy"
            /\ call.arg \in {PyNone, PyText(<<>>)} => ret.v = "windy"

C15_Witness ==
    /\ ret.done
    /\ call.fn = "wind_text"
    /\ call.arg = PyText(<<"C","r","o","s","s","O","F","F">>)
    /\ ret.v = "calm"

----------------------------------------------------------------------------
(* fetch_spot: from the forecast table to the grid *)

\* cells[:21]: 7 days x 3 periods
SLOTS == 21

\* A cell: the number of star images in it, its data-rating / data-value
\* attribute ("" when absent) and its text.
Cell(stars, attr, text) == [stars |-> stars, attr |-> attr, text |-> text]
TextCell(text) == Cell(0, <<>>, text)

\* the value fetch_spot takes from a cell: the star count, else the
\* attribute, else the stripped text
CellValue(cell) ==
    IF cell.stars > 0 THEN <<Digits[cell.stars + 1]>>
    ELSE IF cell.attr # <<>> THEN cell.attr
    ELSE Strip(cell.text)

\* row.find_all("td") of a row: the slot cells, preceded by the label cell
\* when that one is a <td class="forecast-table__header"> and not a <th>
RowCells(row) ==
    IF row.header = "td" THEN <<TextCell(row.label)>> \o row.cells ELSE row.cells

\* values: one per cell of cells[:21]
RowValues(row) ==
    LET cells == RowCells(row)
        n == IF Len(cells) < SLOTS THEN Len(cells) ELSE SLOTS
    IN  [i \in 1..n |-> CellValue(cells[i])]

\* the element of periods made of a period cell value
PeriodSeconds(v) == IF FirstRun(v, DigitChars) = <<>> THEN <<"0">> ELSE FirstRun(v, DigitChars)

\* which of the four sequences a row label stands for ("" for none)
RowKind(label) ==
    LET l == Lower(Strip(label))
    IN  IF Contains(l, <<"r","a","t","i","n","g">>) \/ Contains(l, <<"s","t","a","r">>)
        THEN "ratings"
        ELSE IF /\ Contains(l, <<"w","a","v","e">>)
                /\ \/ Contains(l, <<"h","e","i","g","h","t">>)
                   \/ Contains(l, <<"s","i","z","e">>)
                   \/ Contains(l, <<"(","m",")">>)
        THEN "waves_m"
        ELSE IF Contains(l, <<"p","e","r","i","o","d">>) THEN "periods"
        ELSE IF Contains(l, <<"w","i","n","d">>) /\ Contains(l, <<"s","t","a","t","e">>)
        THEN "wind_states"
        ELSE ""

\* one pass of `for row in rows`
ParseRow(d, row) ==
    IF row.header = "none" \/ RowCells(row) = <<>> THEN d
    ELSE LET values == RowValues(row)
             kind == RowKind(row.label)
         IN  IF kind = "ratings" THEN [d EXCEPT !.ratings = values]
             ELSE IF kind = "waves_m"
             THEN [d EXCEPT !.waves_m = [i \in 1..Len(values) |-> WaveMeters(values[i])]]
             ELSE IF kind = "periods"
             THEN [d EXCEPT !.periods = [i \in 1..Len(values) |-> PeriodSeconds(values[i])]]
             ELSE IF kind = "wind_states" THEN [d EXCEPT !.wind_states = values]
             ELSE d

RECURSIVE ParseRows(_, _)
ParseRows(d, rows) ==
    IF rows = <<>> THEN d ELSE ParseRows(ParseRow(d, Head(rows)), Tail(rows))

\* a rating element found by class: kept when its text is one digit
IsRatingText(t) == Len(Strip(t)) = 1 /\ IsDigit(Strip(t))

StripAll(ts) == [i \in 1..Len(ts) |-> Strip(ts[i])]

\* fetch_spot on a document that was received: the table rows, the two
\* alternatives for ratings and waves, waves_ft, the water temperature
ParseDocument(dc) ==
    LET d0 == [ratings |-> <<>>, waves_m |-> <<>>, periods |-> <<>>, wind_states |-> <<>>]
        d1 == ParseRows(d0, dc.rows)
        d2 == IF d1.ratings = <<>>
              THEN [d1 EXCEPT !.ratings = StripAll(SelectSeq(dc.rating_elems, IsRatingText))]
              ELSE d1
        d3 == IF d2.waves_m = <<>>
              THEN [d2 EXCEPT !.waves_m =
                       SubSeq(dc.script_waves, 1,
                              IF Len(dc.script_waves) < SLOTS THEN Len(dc.script_waves)
                              ELSE SLOTS)]
              ELSE d2
    IN  [ratings |-> d3.ratings, waves_m |-> d3.waves_m, periods |-> d3.periods,
         wind_states |-> d3.wind_states,
         waves_ft |-> [i \in 1..Len(d3.waves_m) |-> meters_to_feet(PyText(d3.waves_m[i])).v],
         water_temp_c |-> dc.water]

\* the documents drawn

LabelRating == <<"R","a","t","i","n","g">>
LabelWaves == <<"W","a","v","e"," ","H","e","i","g","h","t"," ","(","m",")">>
LabelPeriod == <<" ","P","e","r","i","o","d"," ","(","s",")">>
LabelWindState == <<"W","i","n","d"," ","S","t","a","t","e">>
LabelWindSpeed == <<"W","i","n","d"," ","(","k","m","/","h",")">>

\* slot cell i (from 1) of each row
RatingCell(i) ==
    IF i % 3 = 1 THEN Cell(((i * 5) % 7) + 1, <<>>, <<>>)
    ELSE IF i % 3 = 2 THEN Cell(0, <<Digits[((i * 3) % 9) + 1]>>, <<"x">>)
    ELSE TextCell(<<" ", Digits[(i % 7) + 2], "\n">>)

WaveCell(i) == TextCell(<<Digits[(i % 4) + 1], ".", "5", "m">>)
PeriodCell(i) == TextCell(<<"1", Digits[(i % 10) + 1], "s">>)
WindCell(i) == TextCell(WindSamples[(i % 4) + 1])

Row(header, label, n, CellAt(_)) ==
    [header |-> header, label |-> label, cells |-> [i \in 1..n |-> CellAt(i)]]

Absent == <<>>

RatingRows ==
    { Absent }
        \cup { <<Row("th", LabelRating, n, RatingCell)>> : n \in {ShortRow, SLOTS, SLOTS + 1} }
        \cup { <<Row("td", LabelRating, n, RatingCell)>> : n \in {ShortRow, SLOTS} }

WaveRows ==
    { Absent }
        \cup { <<Row("th", LabelWaves, n, WaveCell)>> : n \in {0, ShortRow, SLOTS, SLOTS + 1} }
        \cup { <<Row("td", LabelWaves, SLOTS, WaveCell)>> }

PeriodRows ==
    { Absent, <<Row("th", LabelPeriod, SLOTS, PeriodCell)>>,
      <<Row("td", LabelPeriod, SLOTS, PeriodCell)>> }

WindRows ==
    { Absent, <<Row("th", LabelWindState, ShortRow, WindCell)>>,
      <<Row("th", LabelWindState, SLOTS, WindCell)>>,
      <<Row("td", LabelWindState, SLOTS, WindCell)>> }

\* a row without a label cell and a row of wind speeds, in every document
OtherRows ==
    << Row("none", <<>>, 3, WaveCell), Row("th", LabelWindSpeed, SLOTS, PeriodCell) >>

Documents ==
    { [rows |-> OtherRows \o r \o w \o p \o ws,
       rating_elems |-> alt.rating_elems,
       script_waves |-> alt.script_waves,
       water |-> [known |-> TRUE, v |-> 15]] :
        r \in RatingRows, w \in WaveRows, p \in PeriodRows, ws \in WindRows,
        alt \in { [rating_elems |-> <<>>, script_waves |-> <<>>],
                  [rating_elems |-> << <<"3">>, <<"1","2">>, <<" ","5">>, <<"x">> >>,
                   script_waves |-> << <<"1",".","5">>, <<"2">> >>] } }

NoPicks == [done |-> FALSE]

InitParse ==
    /\ doc \in Documents
    /\ grid = [none |-> TRUE]
    /\ ppc = "fetch"
    /\ picks = NoPicks
    /\ section = [kind |-> "none"]
    /\ today_idx \in {0, 4, 5}
    /\ data = Grid(<<>>, 0, 0, 0)
    /\ wpc = "idle"
    /\ sel = NoSelection
    /\ expl = NoExplainer
    /\ IdleStartup
    /\ IdleHelpers
    /\ IdleTicker
    /\ IdleCounty
    /\ IdleReport
    /\ IdleCommands
    /\ IdleListen

\* data = fetch_spot(slug), the document received
FetchSpot ==
    /\ ppc = "fetch"
    /\ grid' = ParseDocument(doc)
    /\ ppc' = "parsed"
    /\ UNCHANGED <<doc, picks, section, startVars, helperVars, tickerVars,
                   winVars, countyVars, reportVars, cmdVars, listenVars>>

\* the pass of daily_report's loop for the spot once data is there
ComposeSpot ==
    /\ ppc = "parsed"
    /\ picks' = [done |-> TRUE]
                  @@ find_best_windows(grid, get_day_names(today_idx))
    /\ section' = SpotSection(SPOTS[1], [raised |-> FALSE, none |-> FALSE, data |-> grid],
                              get_day_names(today_idx))
    /\ ppc' = "composed"
    /\ UNCHANGED <<doc, grid, startVars, helperVars, tickerVars,
                   winVars, countyVars, reportVars, cmdVars, listenVars>>

NextParse == FetchSpot \/ ComposeSpot

SpecParse == InitParse /\ [][NextParse]_vars

\* the rows of doc that fetch_spot matches with one of the four sequences
IsMatched(row) == row.header # "none" /\ RowKind(row.label) # ""
HasRow(kind) ==
    \E j \in 1..Len(doc.rows) : IsMatched(doc.rows[j]) /\ RowKind(doc.rows[j].label) = kind

\* what a slot cell's value becomes in the sequence of that kind
SlotValue(kind, cell) ==
    IF kind = "waves_m" THEN WaveMeters(CellValue(cell))
    ELSE IF kind = "periods" THEN PeriodSeconds(CellValue(cell))
    ELSE CellValue(cell)

(* C16: for a document with a rating row and a wave-height row but no      *)
(* "wind state" row, fetch_spot returns wind_states = [], and              *)
(* find_best_windows and daily_report complete without raising and use     *)
(* "windy" for every slot they select or print.                            *)
C16_NoWindRow ==
    (HasRow("ratings") /\ HasRow("waves_m") /\ ~HasRow("wind_states")) =>
        /\ ppc \in {"parsed", "composed"} => grid.wind_states = <<>>
        /\ ppc = "composed" =>
              /\ ~picks.raised
              /\ picks.weekend_best.day # None => picks.weekend_best.wind = "windy"
              /\ \A i \in 1..Len(picks.pto_worthy) : picks.pto_worthy[i].wind = "windy"
              /\ section.kind \in {"report", "Data unavailable"}
              /\ section.kind = "report" =>
                    /\ \A i \in 1..Len(section.weekend) : section.weekend[i].wind = "windy"
                    /\ \A i \in 1..Len(section.weekdays) : section.weekdays[i].wind = "windy"

C16_Witness ==
    /\ ppc = "composed"
    /\ HasRow("ratings") /\ HasRow("waves_m") /\ ~HasRow("wind_states")
    /\ grid.wind_states = <<>>
    /\ Len(grid.ratings) = SLOTS
    /\ picks.weekend_best.day # None
    /\ picks.weekend_best.wind = "windy"
    /\ picks.pto_worthy # <<>>
    /\ section.kind = "report"
    /\ Len(section.weekend) = 4
    /\ Len(section.weekdays) = 5

(* C17: for every matched row, its label cell a <th> or a                  *)
(* <td class="forecast-table__header">, fetch_spot takes at most 21 values *)
(* and the value at index i is that of the row's i-th slot cell, the label *)
(* cell not counted.                                                       *)
C17_SlotAligned ==
    ppc \in {"parsed", "composed"} =>
        \A j \in 1..Len(doc.rows) :
            LET row == doc.rows[j]
                kind == RowKind(row.label)
            IN  (IsMatched(row) /\ row.cells # <<>>) =>
                    /\ Len(grid[kind]) <= SLOTS
                    /\ Len(grid[kind]) <= Len(row.cells)
                    /\ Len(grid[kind]) >= (IF Len(row.cells) < SLOTS THEN Len(row.cells) ELSE SLOTS)
                    /\ \A i \in 1..Len(grid[kind]) :
                          i <= Len(row.cells) => grid[kind][i] = SlotValue(kind, row.cells[i])

\* the same for the rows whose label cell is a <th>: these are aligned
C17_ThRowsAligned ==
    ppc \in {"parsed", "composed"} =>
        \A j \in 1..Len(doc.rows) :
            LET row == doc.rows[j]
                kind == RowKind(row.label)
            IN  (IsMatched(row) /\ row.cells # <<>> /\ row.header = "th") =>
                    /\ Len(grid[kind]) = (IF Len(row.cells) < SLOTS THEN Len(row.cells) ELSE SLOTS)
                    /\ \A i \in 1..Len(grid[kind]) : grid[kind][i] = SlotValue(kind, row.cells[i])

\* a row labelled by a <td>: the label text is taken as the first slot
C17_TdRowsShifted ==
    ppc \in {"parsed", "composed"} =>
        \A j \in 1..Len(doc.rows) :
            LET row == doc.rows[j]
                kind == RowKind(row.label)
            IN  (IsMatched(row) /\ row.header = "td") =>
                    /\ grid[kind][1] = SlotValue(kind, TextCell(row.label))
                    /\ \A i \in 2..Len(grid[kind]) : grid[kind][i] = SlotValue(kind, row.cells[i - 1])

----------------------------------------------------------------------------
(* hourly_top10: the WEEKEND WINDOWS part *)

\* weekend_best = {"day": None, "per": None, "rating": -1}
NoTickerBest == [day |-> None, per |-> None, rating |-> 0 - 1]

\* the weekend lines from step k = i * 2 + p of the two nested loops on,
\* best being weekend_best as the earlier steps left it: the slot's rating
\* may replace it, and then the markers are chosen
RECURSIVE TickerLines(_, _, _, _, _)
TickerLines(d, days, hour, k, best) ==
    IF k >= Len(days) * ScannedPeriods THEN <<>>
    ELSE LET i == k \div ScannedPeriods
             p == k % ScannedPeriods
             idx == SlotIndex(i, p)
             day == days[i + 1]
             per_name == PerNames[p + 1]
         IN  IF ~IsWeekend(day) \/ idx >= Len(d.ratings)
             THEN TickerLines(d, days, hour, k + 1, best)
             ELSE LET parsed == ParseInt(d.ratings[idx + 1])
                      now_best == IF parsed.ok /\ parsed.v > best.rating
                                  THEN [day |-> day, per |-> per_name, rating |-> parsed.v]
                                  ELSE best
                      line == [day |-> day, per |-> per_name, idx |-> idx,
                               height |-> ReportHeight(d, idx),
                               period |-> ReportPeriod(d, idx),
                               rating |-> d.ratings[idx + 1],
                               wind |-> ReportWind(d, idx),
                               is_best |-> (day = now_best.day /\ per_name = now_best.per),
                               is_now |-> /\ day = days[1]
                                          /\ \/ per_name = "AM" /\ hour < 12
                                             \/ per_name = "PM" /\ hour >= 12]
                  IN  <<line>> \o TickerLines(d, days, hour, k + 1, now_best)

\* the part of the message between "WEEKEND WINDOWS" and "BEACHES"
hourly_windows(d, days, hour) ==
    IF d.waves_ft = <<>>
    THEN [kind |-> "Forecast unavailable", lines |-> <<>>]
    ELSE [kind |-> "windows", lines |-> TickerLines(d, days, hour, 0, NoTickerBest)]

InitTicker ==
    /\ today_idx \in 3..6
    /\ data \in Grids
    /\ wpc = "idle"
    /\ sel = NoSelection
    /\ expl = NoExplainer
    /\ clock_wd = today_idx
    /\ clock_h \in {9, 15}
    /\ host_off = 0
    /\ last_event = "idle"
    /\ last_text = <<>>
    /\ outbox = <<>>
    /\ ticker = [kind |-> "none"]
    /\ IdleStartup
    /\ IdleHelpers
    /\ IdleParse
    /\ IdleCounty
    /\ IdleReport
    /\ IdleListen

\* hourly_top10() as far as the weekend windows: data is what fetch_spot
\* returned for SPOTS[0]
HourlyWindows ==
    /\ ticker.kind = "none"
    /\ ticker' = hourly_windows(data, get_day_names(today_idx), clock_h)
    /\ last_event' = "hourly_top10"
    /\ UNCHANGED <<startVars, helperVars, parseVars, winVars, countyVars, reportVars,
                   clock_wd, clock_h, host_off, last_text, outbox, listenVars>>

NextTicker == HourlyWindows

SpecTicker == InitTicker /\ [][NextTicker]_vars

\* what find_best_windows returns for the same grid and day names
TickerPick == find_best_windows(data, get_day_names(today_idx)).weekend_best

TrophyLines == { i \in 1..Len(ticker.lines) : ticker.lines[i].is_best }

(* C18: in the weekend windows of hourly_top10 the trophy marker is on     *)
(* exactly the slot find_best_windows returns as weekend_best for the same *)
(* grid and day names, so at most one printed line carries it.             *)
C18_TrophyOnBest ==
    ticker.kind = "windows" =>
        /\ \A i \in 1..Len(ticker.lines) :
              ticker.lines[i].is_best <=>
                  (ticker.lines[i].day = TickerPick.day /\ ticker.lines[i].per = TickerPick.per)
        /\ Cardinality(TrophyLines) <= 1

\* what the code does: the slot find_best_windows returns carries the
\* marker, and so does every earlier line that was the best so far
C18_TrophyOnRunningBest ==
    ticker.kind = "windows" =>
        \A i \in 1..Len(ticker.lines) :
            LET line == ticker.lines[i]
                r == ParseInt(line.rating)
            IN  /\ (line.day = TickerPick.day /\ line.per = TickerPick.per) => line.is_best
                /\ line.is_best <=>
                      /\ r.ok /\ r.v >= 0
                      /\ \A j \in 1..(i - 1) :
                            ParseInt(ticker.lines[j].rating).ok =>
                                ParseInt(ticker.lines[j].rating).v < r.v

----------------------------------------------------------------------------
(* The listener with a transport that redelivers *)

\* what getUpdates answers when the transport redelivers: the updates of id
\* >= offset it holds, oldest first, all of them or the first few; nothing
\* only when there is none
Redelivered(offset) ==
    LET pending == Ascending({ id \in 1..Len(updates) : id >= offset })
    IN  IF pending = <<>> THEN { <<>> }
        ELSE { [i \in 1..n |-> updates[pending[i]]] : n \in 1..Len(pending) }

PollRedelivers ==
    /\ lpc = "poll"
    /\ \E answer \in Redelivered(PollOffset(last_update_id)) :
          /\ batch' = answer
          /\ lpc' = IF answer = <<>> THEN "poll" ELSE "batch"
    /\ UNCHANGED <<moreVars, dropped, updates, last_update_id, handled, last_event, last_text,
                   outbox, clock_wd, clock_h, host_off, winVars, countyVars, reportVars>>

\* one pass of `for u in r.json().get("result", [])`
LookAtUpdate == HandleUpdate \/ HandleUpdateRaises \/ SkipUpdate

NextListenLive ==
    \/ \E body \in UpdateBodies : Arrive(body)
    \/ PollRedelivers
    \/ PollFailed
    \/ HandleUpdate
    \/ HandleUpdateRaises
    \/ SkipUpdate
    \/ Sleep

\* the for loop goes on, the sleep ends, and the transport, asked again and
\* again, answers at some time
SpecListenLive ==
    /\ InitListen
    /\ [][NextListenLive]_vars
    /\ WF_vars(LookAtUpdate)
    /\ WF_vars(Sleep)
    /\ SF_vars(PollRedelivers)

UpdateIds == 1..MaxUpdates

TimesHandled(k) == Cardinality({ i \in 1..Len(handled) : handled[i] = k })

\* update k carries a message of the configured chat
IsOwn(k) == updates[k].has_message /\ updates[k].chat = TELEGRAM_CHAT_ID

\* the step in which Bot.handle raises for the update at the head of batch
RaiseStep == lpc = "batch" /\ last_event' = "handle raised" /\ handled' # handled

(* C19: when handling update k of an answer raises, the listener goes on:  *)
(* the cursor is k, the rest of the answer is abandoned, the sleep follows *)
(* and the next poll asks for k + 1; k is never handled again, and every   *)
(* later update of that answer is looked at on a later poll, and handled   *)
(* if it is of the configured chat (the transport redelivering).  The      *)
(* cursor and handled only grow, so "again and again every abandoned       *)
(* update has been looked at" says that each of them is, after it was      *)
(* abandoned.                                                              *)
C19_RaiseRecovery ==
    /\ [][RaiseStep =>
            /\ last_update_id' = Head(batch).update_id
            /\ handled' = Append(handled, Head(batch).update_id)
            /\ batch' = <<>>
            /\ lpc' = "sleep"
            /\ PollOffset(last_update_id') = Head(batch).update_id + 1]_vars
    /\ [](\A k \in UpdateIds : TimesHandled(k) <= 1)
    /\ [](\A k \in dropped : k <= Len(updates))
    /\ []<>(\A k \in dropped : last_update_id >= k /\ (IsOwn(k) => TimesHandled(k) = 1))

\* update 1 raised with update 2 behind it in the answer; 2 was handled on
\* a later poll, 1 not again
C19_Witness ==
    /\ dropped = {2}
    /\ handled = <<1, 2>>
    /\ last_update_id = 2
    /\ lpc = "poll"

(* C20: an update of another chat, or without a message, whatever its      *)
(* text, never reaches Bot.handle and never causes a send; it still moves  *)
(* last_update_id, so it is not delivered again.                           *)
C20_ForeignIgnored ==
    /\ \A i \in 1..Len(handled) : IsOwn(handled[i])
    /\ \A k \in 1..Len(updates) :
          (~IsOwn(k) /\ k = last_update_id) => (outbox = <<>> /\ last_event = "ignored")
    /\ \A i \in 1..Len(batch) : batch[i].update_id > last_update_id

C20_Witness ==
    /\ Len(updates) = 2
    /\ ~updates[1].has_message
    /\ updates[2].has_message /\ updates[2].chat = "42"
    /\ last_update_id = 2
    /\ last_event = "ignored"
    /\ last_text = <<"/", "p", "i", "n", "g">>
    /\ handled = <<>>
    /\ outbox = <<>>
    /\ lpc = "poll"

=============================================================================
